---- MODULE Spec2Model ----
(***************************************************************************)
(* The interactive lock-screen controller of perimedes: the negotiation    *)
(* loop of lockscreen.rs, input seizure, the verdict parser and the lock   *)
(* timer of timer.rs.                                                      *)
(*                                                                         *)
(* A text (Rust String / &str) is a sequence of code points; the literals  *)
(* below are the ASCII codes of the source's string literals, given in the *)
(* comment beside each of them.                                            *)
(***************************************************************************)
EXTENDS Integers, Sequences, FiniteSets, TLC

VARIABLES
    pc,             \* where the entry point run_interactive_lock_screen stands
    unlock_phrase,  \* parameter unlock_phrase
    screen_context, \* parameter screen_context
    messages,       \* LockWindow.messages: the transcript
    conversation,   \* LockWindow.conversation: the history sent to the service
    input_buffer,   \* LockWindow.input_buffer
    turn,           \* loop variable i of handle_interactive_chat
    user_input,     \* local user_input of handle_interactive_chat
    response,       \* local response of process_message_with_claude
    verdict,        \* what the negotiation last produced (Option<LockResult>)
    apiCalls,       \* number of calls of call_claude_api made so far
    result,         \* return value of run_interactive_lock_screen
    kbHeld,         \* the connection holding the keyboard grab
    ptrHeld,        \* the connection holding the pointer grab
    kb_grab,        \* local kb_grab of the last grab attempt
    ptr_grab,       \* local ptr_grab of the last grab attempt
    grabAttempts,   \* attempts made by the running grab_keyboard_and_mouse
    mapped,         \* windows mapped on the X server
    everMapped,     \* windows that were mapped at some time
    drawn,          \* number of draw_chat_window calls completed (capped)
    minutes,        \* parameter minutes of display_lock_timer
    clock,          \* start_time.elapsed() of the lock timer, in 100 ms ticks
    pending,        \* events queued on the lock timer's connection, oldest first
    screen_height,  \* screen.height_in_pixels, as draw_chat_window reads it
    frame,          \* the text lines the last draw_chat_window put on the window
    wpc,            \* where screen_chat_unlock stands
    msg_channel,    \* the ChatMessages sent on msg_sender, oldest first
    msg_open,       \* whether the receiver of msg_sender still exists
    input_channel,  \* the lines queued for input_receiver, oldest first
    input_open,     \* whether a sender of input_receiver still exists
    worker_input,   \* local input of screen_chat_unlock: <<>> or <<line>>
    decision,       \* return value of screen_chat_unlock
    last_key,       \* local keysym of get_user_input: the key handled last
    api_response,   \* what the service sent back to a call_claude_api on its own
    api_result,     \* what that call returned: <<>> or <<result>>
    period_pc,      \* where enforce_lock_period stands
    period_minutes, \* parameter minutes of enforce_lock_period
    period_clock,   \* what start_time.elapsed() would return now, in 500 ms units
    period_elapsed, \* what the last start_time.elapsed() returned
    remaining,      \* local remaining of enforce_lock_period: <<>> or <<duration>>
    main_pc,        \* where the loop of main stands
    since_api_call, \* the time since last_api_call, in units of 10 s
    now_since,      \* now - last_api_call, as step 4 of the loop computed it
    lock_threads    \* the lock-screen threads main spawned that still run

vars == <<pc, unlock_phrase, screen_context, messages, conversation,
          input_buffer, turn, user_input, response, verdict, apiCalls, result,
          kbHeld, ptrHeld, kb_grab, ptr_grab, grabAttempts, mapped, everMapped,
          drawn, minutes, clock, pending, screen_height, frame, wpc,
          msg_channel, msg_open, input_channel, input_open, worker_input,
          decision, last_key, api_response, api_result, period_pc,
          period_minutes, period_clock, period_elapsed, remaining, main_pc,
          since_api_call, now_since, lock_threads>>

\* the state of the negotiation and of the lock timer
session == <<pc, unlock_phrase, screen_context, messages, conversation,
             input_buffer, turn, user_input, response, verdict, apiCalls, result,
             kbHeld, ptrHeld, kb_grab, ptr_grab, grabAttempts, mapped, everMapped,
             drawn, minutes, clock, pending, last_key>>

\* the state draw_chat_window reads from the screen and leaves on it
renderer == <<screen_height, frame>>

\* the state of a call_claude_api taken on its own
service == <<api_response, api_result>>

\* the state of enforce_lock_period
period == <<period_pc, period_minutes, period_clock, period_elapsed, remaining>>

\* the state of the loop of main and of the threads it spawned
monitor == <<main_pc, since_api_call, now_since, lock_threads>>

\* the state of screen_chat_unlock and of its two channels
worker == <<wpc, msg_channel, msg_open, input_channel, input_open,
           worker_input, decision>>

(***************************************************************************)
(* Program constants.                                                      *)
(***************************************************************************)
MAX_MESSAGES == 4
MIN_LOCK_MINUTES == 1
MAX_LOCK_MINUTES == 10
SPACE == 32
ENTER == 65293
ESCAPE == 65307
BACKSPACE == 65288
GRAB_TRIES == 6
TICKS_PER_MINUTE == 600

STR_UNLOCK == <<85, 78, 76, 79, 67, 75>> \* "UNLOCK"
STR_LOCK_COLON == <<76, 79, 67, 75, 58>> \* "LOCK:"
STR_UNLOCK_PLS == <<117, 110, 108, 111, 99, 107, 32, 112, 108, 115>> \* "unlock pls"
AUTO_UNLOCK == <<95, 95, 65, 85, 84, 79, 95, 85, 78, 76, 79, 67, 75, 95, 95>> \* "__AUTO_UNLOCK__"
U64_MAX == <<49, 56, 52, 52, 54, 55, 52, 52, 48, 55, 51, 55, 48, 57, 53, 53, 49, 54, 49, 53>> \* u64::MAX, 18446744073709551615

(***************************************************************************)
(* Bounds of the model.                                                    *)
(***************************************************************************)
MaxPieces == 3

(***************************************************************************)
(* std string functions, on code points.                                   *)
(***************************************************************************)
SetMin(S) == CHOOSE x \in S : \A y \in S : x <= y
SetMax(S) == CHOOSE x \in S : \A y \in S : x >= y

\* char::is_whitespace, restricted to ASCII
is_whitespace(c) == c \in {9, 10, 11, 12, 13, 32}

is_digit(c) == c \in 48..57

\* pat occurs in s at index k
OccursAt(s, pat, k) ==
    /\ k >= 1
    /\ k + Len(pat) - 1 <= Len(s)
    /\ \A j \in 1..Len(pat) : s[k + j - 1] = pat[j]

\* str::contains
contains(s, pat) == \E k \in 1..(Len(s) - Len(pat) + 1) : OccursAt(s, pat, k)

\* str::find: the index of the first occurrence (the caller checks contains)
find(s, pat) == SetMin({k \in 1..(Len(s) - Len(pat) + 1) : OccursAt(s, pat, k)})

\* str::split(pat).collect(): the pieces between the successive occurrences
RECURSIVE split(_, _)
split(s, pat) ==
    IF contains(s, pat)
    THEN LET k == find(s, pat)
         IN  <<SubSeq(s, 1, k - 1)>> \o split(SubSeq(s, k + Len(pat), Len(s)), pat)
    ELSE <<s>>

\* str::trim
trim(s) ==
    LET keep == {k \in 1..Len(s) : ~is_whitespace(s[k])}
    IN  IF keep = {} THEN <<>> ELSE SubSeq(s, SetMin(keep), SetMax(keep))

\* str::to_uppercase and str::to_lowercase, on ASCII
to_uppercase(s) == [k \in 1..Len(s) |-> IF s[k] \in 97..122 THEN s[k] - 32 ELSE s[k]]
to_lowercase(s) == [k \in 1..Len(s) |-> IF s[k] \in 65..90 THEN s[k] + 32 ELSE s[k]]

(***************************************************************************)
(* str::parse::<u64>.  A u64 does not fit TLC's integers, so the value is  *)
(* kept as its decimal digits without leading zeros (<<>> is zero); the    *)
(* overflow test compares the digits with those of u64::MAX.               *)
(***************************************************************************)
RECURSIVE StripZeros(_)
StripZeros(d) == IF d # <<>> /\ d[1] = 48 THEN StripZeros(Tail(d)) ELSE d

\* a <= b for two digit strings of the same length
DigitsLeq(a, b) ==
    \/ a = b
    \/ \E k \in 1..Len(a) : a[k] < b[k] /\ \A j \in 1..(k - 1) : a[j] = b[j]

FitsU64(n) == Len(n) < Len(U64_MAX) \/ (Len(n) = Len(U64_MAX) /\ DigitsLeq(n, U64_MAX))

ParseErr == [ok |-> FALSE, num |-> <<>>]

parse_u64(s) ==
    IF s = <<>> THEN ParseErr
    ELSE IF Len(s) = 1 /\ s[1] \in {43, 45} THEN ParseErr
    ELSE LET digits == IF s[1] = 43 THEN Tail(s) ELSE s
         IN  IF \E k \in 1..Len(digits) : ~is_digit(digits[k]) THEN ParseErr
             ELSE IF FitsU64(StripZeros(digits))
                  THEN [ok |-> TRUE, num |-> StripZeros(digits)]
                  ELSE ParseErr

\* the value of at most two digits
SmallValue(n) ==
    IF Len(n) = 0 THEN 0
    ELSE IF Len(n) = 1 THEN n[1] - 48
    ELSE (n[1] - 48) * 10 + (n[2] - 48)

\* u64::clamp(lo, hi) of a parsed number, for hi below 100: a number of three
\* digits or more is above hi
clamp(n, lo, hi) ==
    IF Len(n) > 2 THEN hi
    ELSE IF SmallValue(n) < lo THEN lo
    ELSE IF SmallValue(n) > hi THEN hi
    ELSE SmallValue(n)

\* format!("{}", minutes) for minutes up to 99
Decimal(m) == IF m < 10 THEN <<48 + m>> ELSE <<48 + (m \div 10), 48 + (m % 10)>>

(***************************************************************************)
(* LockResult and the verdict of a reply.                                  *)
(***************************************************************************)
Pending == [tag |-> "Pending", minutes |-> 0]
NoDecision == [tag |-> "None", minutes |-> 0]
Unlocked == [tag |-> "Unlocked", minutes |-> 0]
TimedLock(m) == [tag |-> "TimedLock", minutes |-> m]

\* the minutes of a reply that contains "LOCK:"
lock_minutes(reply) ==
    LET parts == split(reply, STR_LOCK_COLON)
        parsed == IF Len(parts) >= 2 THEN parse_u64(trim(parts[2])) ELSE ParseErr
    IN  IF parsed.ok
        THEN clamp(parsed.num, MIN_LOCK_MINUTES, MAX_LOCK_MINUTES)
        ELSE MIN_LOCK_MINUTES

\* check_decision taking a reply without either token for the minimum lock
check_decision_default_lock(reply) ==
    IF contains(reply, STR_UNLOCK) THEN Unlocked
    ELSE IF contains(reply, STR_LOCK_COLON) THEN TimedLock(lock_minutes(reply))
    ELSE TimedLock(MIN_LOCK_MINUTES)

\* check_decision with its two tests in the other order, LOCK: first: C3 fails on it
check_decision_lock_first(reply) ==
    IF contains(reply, STR_LOCK_COLON) THEN TimedLock(lock_minutes(reply))
    ELSE IF contains(reply, STR_UNLOCK) THEN Unlocked
    ELSE NoDecision

\* check_decision giving no decision for a LOCK: whose number does not parse:
\* C6 fails on it
check_decision_unparsed_none(reply) ==
    IF contains(reply, STR_UNLOCK) THEN Unlocked
    ELSE IF contains(reply, STR_LOCK_COLON)
              /\ parse_u64(trim(split(reply, STR_LOCK_COLON)[2])).ok
    THEN TimedLock(lock_minutes(reply))
    ELSE NoDecision

\* "Check for decision" of process_message_with_claude
check_decision(reply) ==
    IF contains(reply, STR_UNLOCK) THEN Unlocked
    ELSE IF contains(reply, STR_LOCK_COLON) THEN TimedLock(lock_minutes(reply))
    ELSE NoDecision

(***************************************************************************)
(* The inputs of the model: the configured phrases, the screen contexts,   *)
(* the lines the user types, the keys of the keyboard, the responses of    *)
(* the service and the pieces its replies are made of.                     *)
(***************************************************************************)
Phrases == { <<85, 78, 76, 79, 67, 75>>,   \* "UNLOCK", UNLOCK_PHRASE of constants.rs
             <<85, 110, 108, 111, 99, 107>> }  \* "Unlock"

Contexts == { <<>>, <<114, 101, 100, 100, 105, 116>> } \* "", "reddit"

\* the user types one of these lines, key by key, and may edit it on the way
TypedLines == { <<104, 105>>,            \* "hi"
                <<117, 110, 108, 111, 99, 107>>,        \* "unlock"
                <<85, 78, 76, 79, 67, 75>>,        \* "UNLOCK"
                <<117, 110, 108, 111, 99, 107, 32, 112, 108, 115>>,    \* "unlock pls"
                <<85, 110, 108, 111, 99, 107, 32, 80, 108, 115, 32>> }  \* "Unlock Pls "

\* the keys of the lines, and '!' (0x21), '_' (0x5f) and Shift_L (0xffe1), which
\* no line of TypedLines needs
KeysOf(lines) == UNION {{l[k] : k \in 1..Len(l)} : l \in lines}
                    \cup {ENTER, ESCAPE, BACKSPACE, 33, 95, 65505}

Keys == KeysOf(TypedLines)

IsPrefix(p, l) == Len(p) <= Len(l) /\ SubSeq(l, 1, Len(p)) = p

\* the texts of the first content block of a response of the service
ReplyTexts == { <<85, 78, 76, 79, 67, 75>>,               \* "UNLOCK"
                <<76, 79, 67, 75, 58, 51>>,               \* "LOCK:3"
                <<76, 79, 67, 75, 58, 97, 98, 99>>,             \* "LOCK:abc"
                <<83, 116, 97, 121, 32, 102, 111, 99, 117, 115, 101, 100, 33, 32, 76, 79, 67, 75, 58, 51>>, \* "Stay focused! LOCK:3"
                <<76, 79, 67, 75, 58, 51, 32, 109, 105, 110, 117, 116, 101, 115, 46>>,      \* "LOCK:3 minutes."
                <<85, 78, 76, 79, 67, 75, 32, 76, 79, 67, 75, 58, 51>>,        \* "UNLOCK LOCK:3"
                <<32, 119, 104, 121, 10>> }              \* " why\n"

\* what the HTTP call can come back with: no response, a body that is not an
\* AnthropicResponse, or one with a list of content blocks
Responses ==
    {[kind |-> "transport_error", content |-> <<>>],
     [kind |-> "malformed", content |-> <<>>],
     [kind |-> "json", content |-> <<>>]}
        \cup {[kind |-> "json", content |-> <<t>>] : t \in ReplyTexts}

\* the pieces the replies of the parser's specification are made of
Pieces == { <<85, 78>>,                    \* "UN"
            <<76, 79, 67, 75, 58>>,                 \* "LOCK:"
            <<85, 78, 76, 79, 67, 75>>,                \* "UNLOCK"
            <<32>>,                     \* " "
            <<48>>,                     \* "0"
            <<51>>,                     \* "3"
            <<49, 53>>,                    \* "15"
            <<45>>,                     \* "-"
            <<43>>,                     \* "+"
            <<97, 98, 99>>,                   \* "abc"
            <<83, 116, 97, 121, 32, 102, 111, 99, 117, 115, 101, 100, 33, 32>>,        \* "Stay focused! "
            <<32, 109, 105, 110, 117, 116, 101, 115, 46>>,             \* " minutes."
            <<49, 56, 52, 52, 54, 55, 52, 52, 48, 55, 51, 55, 48, 57, 53, 53, 49, 54, 49, 53>>,  \* "18446744073709551615"
            <<49, 56, 52, 52, 54, 55, 52, 52, 48, 55, 51, 55, 48, 57, 53, 53, 49, 54, 49, 54>> } \* "18446744073709551616"

\* how long one iteration of the timer loop can take, in 100 ms ticks
TimeSteps == {1, TICKS_PER_MINUTE}

\* the events the X server keeps queued for the lock timer, at most
MaxPending == 1

GrabStatus == {"SUCCESS", "ALREADY_GRABBED", "NO_REPLY"}

(***************************************************************************)
(* Transcript entries (ChatMessage) and history messages (Message).        *)
(***************************************************************************)
System(text) == [kind |-> "System", text |-> text]
User(text) == [kind |-> "User", text |-> text]
Assistant(text) == [kind |-> "Assistant", text |-> text]
Decision(text) == [kind |-> "Decision", text |-> text]

Message(role, content) == [role |-> role, content |-> content]

INTRO == <<76, 111, 99, 107, 101, 100, 58>> \* "Locked:"
THINKING == <<67, 108, 97, 117, 100, 101, 32, 105, 115, 32, 116, 104, 105, 110, 107, 105, 110, 103, 46, 46, 46>> \* "Claude is thinking..."
UNLOCKING == <<85, 78, 76, 79, 67, 75, 73, 78, 71, 32, 83, 67, 82, 69, 69, 78>> \* "UNLOCKING SCREEN"
UNLOCKING_AUTO == <<85, 78, 76, 79, 67, 75, 73, 78, 71, 32, 83, 67, 82, 69, 69, 78, 32, 40, 65, 117, 116, 111, 45, 117, 110, 108, 111, 99, 107, 41>> \* "UNLOCKING SCREEN (Auto-unlock)"
JUDGE_PROMPT == <<89, 111, 117, 32, 97, 114, 101, 32, 97, 32, 112, 114, 111, 100, 117, 99, 116, 105, 118, 105, 116, 121, 32, 101, 110, 102, 111, 114, 99, 101, 114, 46>> \* the first sentence of JUDGE_PROMPT
CONTEXT_PREFIX == <<72, 101, 114, 101, 39, 115, 32, 119, 104, 97, 116, 32, 119, 97, 115, 32, 111, 110, 32, 109, 121, 32, 115, 99, 114, 101, 101, 110, 32, 116, 104, 97, 116, 32, 116, 114, 105, 103, 103, 101, 114, 101, 100, 32, 116, 104, 101, 32, 108, 111, 99, 107, 58, 10, 10>> \* "Here's what was on my screen that triggered the lock:\n\n"
CONTEXT_ACK == <<73, 39, 118, 101, 32, 114, 101, 118, 105, 101, 119, 101, 100, 32, 116, 104, 101, 32, 99, 111, 110, 116, 101, 110, 116, 32, 116, 104, 97, 116, 32, 119, 97, 115, 32, 111, 110, 32, 121, 111, 117, 114, 32, 115, 99, 114, 101, 101, 110, 46>> \* the first sentence of the acknowledgment

\* format!("SCREEN LOCKED FOR {} MINUTES", m)
locked_for(m) == <<83, 67, 82, 69, 69, 78, 32, 76, 79, 67, 75, 69, 68, 32, 70, 79, 82, 32>> \o Decimal(m) \o <<32, 77, 73, 78, 85, 84, 69, 83>>

\* initialize_conversation without the assistant message that acknowledges the
\* screen context
initialize_conversation_no_ack(context) ==
    IF context # <<>>
    THEN << Message("assistant", JUDGE_PROMPT),
            Message("user", CONTEXT_PREFIX \o context) >>
    ELSE << Message("assistant", JUDGE_PROMPT) >>

initialize_conversation(context) ==
    IF context # <<>>
    THEN << Message("assistant", JUDGE_PROMPT),
            Message("user", CONTEXT_PREFIX \o context),
            Message("assistant", CONTEXT_ACK) >>
    ELSE << Message("assistant", JUDGE_PROMPT) >>

\* VecDeque::pop_front, the oldest element taken instead of the newest
pop_front(q) == IF q = <<>> THEN q ELSE SubSeq(q, 2, Len(q))

pop_back(q) == IF q = <<>> THEN q ELSE SubSeq(q, 1, Len(q) - 1)

Running == [tag |-> "Running", minutes |-> 0, err |-> "none"]
Ok(lock_result) == [tag |-> lock_result.tag, minutes |-> lock_result.minutes, err |-> "none"]
Err(e) == [tag |-> "Err", minutes |-> 0, err |-> e]

(***************************************************************************)
(* The state after construction: the entry point was called.               *)
(***************************************************************************)
\* no draw_chat_window has run
RendererIdle ==
    /\ screen_height = 0
    /\ frame = <<>>

\* no call_claude_api is looked at on its own
ServiceIdle ==
    /\ api_response = [kind |-> "none", content |-> <<>>]
    /\ api_result = <<>>

\* enforce_lock_period has not been called
PeriodIdle ==
    /\ period_pc = "idle"
    /\ period_minutes = 0
    /\ period_clock = 0
    /\ period_elapsed = 0
    /\ remaining = <<>>

\* main is not looked at
MonitorIdle ==
    /\ main_pc = "idle"
    /\ since_api_call = 0
    /\ now_since = 0
    /\ lock_threads = <<>>

\* screen_chat_unlock has not been called
WorkerIdle ==
    /\ wpc = "idle"
    /\ msg_channel = <<>>
    /\ msg_open = TRUE
    /\ input_channel = <<>>
    /\ input_open = TRUE
    /\ worker_input = <<>>
    /\ decision = Running

Init ==
    /\ pc = "start"
    /\ unlock_phrase \in Phrases
    /\ screen_context \in Contexts
    /\ messages = <<>>
    /\ conversation = <<>>
    /\ input_buffer = <<>>
    /\ turn = 0
    /\ user_input = <<>>
    /\ response = <<>>
    /\ verdict = Pending
    /\ apiCalls = 0
    /\ result = Running
    /\ kbHeld = "none"
    /\ ptrHeld = "none"
    /\ kb_grab = "none"
    /\ ptr_grab = "none"
    /\ grabAttempts = 0
    /\ mapped = {}
    /\ everMapped = {}
    /\ drawn = FALSE
    /\ minutes = 0
    /\ clock = 0
    /\ pending = <<>>
    /\ last_key = 0
    /\ ServiceIdle
    /\ PeriodIdle
    /\ MonitorIdle
    /\ RendererIdle
    /\ WorkerIdle

\* The connection and the LockWindow go out of scope: the X server destroys the
\* windows of the closed connection and releases its grabs.
DropSession ==
    /\ messages' = <<>>
    /\ conversation' = <<>>
    /\ input_buffer' = <<>>
    /\ user_input' = <<>>
    /\ response' = <<>>
    /\ kbHeld' = "none"
    /\ ptrHeld' = "none"
    /\ mapped' = {}

\* Propagate with the connection kept open after the error (an Arc of it held
\* somewhere): the server keeps the windows and the grabs
PropagateKeepsConnection(e) ==
    /\ pc' = "done"
    /\ result' = Err(e)
    /\ pending' = <<>>
    /\ last_key' = 0
    /\ UNCHANGED <<unlock_phrase, screen_context, turn, verdict, apiCalls,
                   kb_grab, ptr_grab, grabAttempts, everMapped, drawn, minutes, clock,
                   messages, conversation, input_buffer, user_input, response,
                   kbHeld, ptrHeld, mapped>>
    /\ UNCHANGED <<renderer, worker, service, period, monitor>>

\* An error leaves through every `?` up to the entry point.
Propagate(e) ==
    /\ pc' = "done"
    /\ result' = Err(e)
    /\ DropSession
    /\ pending' = <<>>
    /\ last_key' = 0
    /\ UNCHANGED <<unlock_phrase, screen_context, turn, verdict, apiCalls,
                   kb_grab, ptr_grab, grabAttempts, everMapped, drawn, minutes, clock>>
    /\ UNCHANGED <<renderer, worker, service, period, monitor>>

(***************************************************************************)
(* decide: connection and window.                                          *)
(***************************************************************************)
\* DecideCreate mapping the window as soon as it is created, before the grab:
\* C9 fails on it
DecideCreateMapsFirst ==
    /\ pc = "start"
    /\ pc' = "grab"
    /\ conversation' = initialize_conversation(screen_context)
    /\ grabAttempts' = 0
    /\ mapped' = mapped \cup {"chat"}
    /\ everMapped' = everMapped \cup {"chat"}
    /\ UNCHANGED <<unlock_phrase, screen_context, messages, input_buffer, turn,
                   user_input, response, verdict, apiCalls, result, kbHeld, ptrHeld,
                   kb_grab, ptr_grab, drawn, minutes, clock>>
    /\ UNCHANGED <<pending, last_key, renderer, worker, service, period, monitor>>

\* x11rb::connect, create_lock_windows and initialize_conversation succeed
DecideCreate ==
    /\ pc = "start"
    /\ pc' = "grab"
    /\ conversation' = initialize_conversation(screen_context)
    /\ grabAttempts' = 0
    /\ UNCHANGED <<unlock_phrase, screen_context, messages, input_buffer, turn,
                   user_input, response, verdict, apiCalls, result, kbHeld, ptrHeld,
                   kb_grab, ptr_grab, mapped, everMapped, drawn, minutes, clock>>
    /\ UNCHANGED <<pending, last_key, renderer, worker, service, period, monitor>>

DecideCreateFails ==
    /\ pc = "start"
    /\ \E e \in {"ConnectionError", "CreateError"} : Propagate(e)

(***************************************************************************)
(* grab_keyboard_and_mouse.                                                *)
(***************************************************************************)
\* grab_succeeded taking one successful grab for a success: C8 fails on it
grab_succeeded_either(kb, ptr) == kb = "SUCCESS" \/ ptr = "SUCCESS"

grab_succeeded(kb, ptr) == kb = "SUCCESS" /\ ptr = "SUCCESS"

\* who holds a grab after a request answered with status
held_after(held, status, conn) == IF status = "SUCCESS" THEN conn ELSE held

\* one pass of the loop of grab_keyboard_and_mouse, called by decide; on
\* success the function returns (its loop counter is gone), decide maps the
\* window and draws the transcript, and the negotiation loop enters
\* get_user_input
ChatGrabAttempt ==
    /\ pc = "grab"
    /\ \E kb \in GrabStatus, ptr \in GrabStatus :
        /\ kb_grab' = kb
        /\ ptr_grab' = ptr
        /\ IF grab_succeeded(kb, ptr)
           THEN /\ pc' = "input"
                /\ grabAttempts' = 0
                /\ kbHeld' = held_after(kbHeld, kb, "chat")
                /\ ptrHeld' = held_after(ptrHeld, ptr, "chat")
                /\ mapped' = mapped \cup {"chat"}
                /\ everMapped' = everMapped \cup {"chat"}
                /\ messages' = Append(messages, System(INTRO))
                /\ drawn' = TRUE
                /\ turn' = 0
                /\ input_buffer' = <<>>
                /\ result' = result
                /\ UNCHANGED <<conversation, user_input, response>>
           ELSE IF grabAttempts + 1 < GRAB_TRIES
           THEN /\ grabAttempts' = grabAttempts + 1
                /\ kbHeld' = held_after(kbHeld, kb, "chat")
                /\ ptrHeld' = held_after(ptrHeld, ptr, "chat")
                /\ UNCHANGED <<pc, result, mapped, everMapped, messages, drawn, turn,
                               input_buffer, conversation, user_input, response>>
           ELSE /\ pc' = "done"
                /\ grabAttempts' = grabAttempts + 1
                /\ result' = Err("GrabError")
                /\ DropSession
                /\ UNCHANGED <<everMapped, drawn, turn>>
    /\ UNCHANGED <<unlock_phrase, screen_context, verdict, apiCalls, minutes, clock>>
    /\ UNCHANGED <<pending, last_key, renderer, worker, service, period, monitor>>

(***************************************************************************)
(* get_user_input and the part of handle_interactive_chat that follows a   *)
(* submitted line, up to the call of the service.                          *)
(***************************************************************************)
\* process_key_input taking every printable ASCII code, punctuation included
process_key_input_printable(keysym, buffer) ==
    IF keysym = ENTER \/ keysym = ESCAPE \/ keysym = BACKSPACE
    THEN [added |-> FALSE, buffer |-> buffer]
    ELSE IF keysym \in 32..126
    THEN [added |-> TRUE, buffer |-> Append(buffer, keysym)]
    ELSE [added |-> FALSE, buffer |-> buffer]

\* process_key_input taking the underscore (0x5f) with the letters
process_key_input_underscore(keysym, buffer) ==
    IF keysym = ENTER \/ keysym = ESCAPE \/ keysym = BACKSPACE
    THEN [added |-> FALSE, buffer |-> buffer]
    ELSE IF keysym = SPACE
    THEN [added |-> TRUE, buffer |-> Append(buffer, 32)]
    ELSE IF keysym \in 48..57 \/ keysym \in 65..90 \/ keysym \in 95..122
    THEN [added |-> TRUE, buffer |-> Append(buffer, keysym)]
    ELSE [added |-> FALSE, buffer |-> buffer]

\* process_key_input: the buffer after the key, and whether a character was added
process_key_input(keysym, buffer) ==
    IF keysym = ENTER \/ keysym = ESCAPE \/ keysym = BACKSPACE
    THEN [added |-> FALSE, buffer |-> buffer]
    ELSE IF keysym = SPACE
    THEN [added |-> TRUE, buffer |-> Append(buffer, 32)]
    ELSE IF keysym \in 48..57 \/ keysym \in 65..90 \/ keysym \in 97..122
    THEN [added |-> TRUE, buffer |-> Append(buffer, keysym)]
    ELSE [added |-> FALSE, buffer |-> buffer]

check_unlock_phrase(input, phrase) == to_uppercase(input) = phrase

\* the keys the user of the model presses: a key that extends the line towards
\* one of TypedLines, Enter on an empty or a complete line, and any other key
UserMayPress(k, lines) ==
    IF k = ENTER THEN input_buffer = <<>> \/ input_buffer \in lines
    ELSE IF process_key_input(k, input_buffer).added
    THEN \E l \in lines : IsPrefix(process_key_input(k, input_buffer).buffer, l)
    ELSE TRUE

\* get_user_input returns "__AUTO_UNLOCK__" and handle_interactive_chat returns Unlocked
ReturnAutoUnlock ==
    /\ pc' = "verdict"
    /\ verdict' = Unlocked
    /\ user_input' = AUTO_UNLOCK
    /\ UNCHANGED <<conversation, apiCalls>>

\* SubmitLine starting the history over with every line: the service would see
\* the prompt and the last line only
SubmitLineFresh(input) ==
    /\ user_input' = input
    /\ IF input = AUTO_UNLOCK
       THEN /\ pc' = "verdict"
            /\ verdict' = Unlocked
            /\ messages' = Append(messages, User(input))
            /\ UNCHANGED <<conversation, apiCalls>>
       ELSE /\ pc' = "thinking"
            /\ conversation' = Append(initialize_conversation(screen_context),
                                      Message("user", input))
            /\ messages' = Append(Append(messages, User(input)), System(THINKING))
            /\ apiCalls' = apiCalls + 1
            /\ verdict' = verdict

\* get_user_input returns the line; process_message_with_claude runs up to the call
SubmitLine(input) ==
    /\ user_input' = input
    /\ IF input = AUTO_UNLOCK
       THEN /\ pc' = "verdict"
            /\ verdict' = Unlocked
            /\ messages' = Append(messages, User(input))
            /\ UNCHANGED <<conversation, apiCalls>>
       ELSE /\ pc' = "thinking"
            /\ conversation' = Append(conversation, Message("user", input))
            /\ messages' = Append(Append(messages, User(input)), System(THINKING))
            /\ apiCalls' = apiCalls + 1
            /\ verdict' = verdict

\* KeyPress with an Escape that takes one character off the line, as Backspace
\* does, instead of clearing it
KeyPressEscapeDeletes(lines) ==
    /\ pc = "input"
    /\ \E k \in KeysOf(lines) :
        /\ UserMayPress(k, lines)
        /\ last_key' = k
        /\ IF k = ENTER
           THEN IF input_buffer = <<>>
                THEN UNCHANGED <<pc, verdict, user_input, conversation, apiCalls,
                                 messages, input_buffer>>
                ELSE IF to_lowercase(trim(input_buffer)) = STR_UNLOCK_PLS
                THEN /\ messages' = Append(messages, Decision(UNLOCKING_AUTO))
                     /\ input_buffer' = input_buffer
                     /\ ReturnAutoUnlock
                ELSE /\ input_buffer' = <<>>
                     /\ SubmitLine(input_buffer)
           ELSE IF k = ESCAPE
           THEN /\ input_buffer' = pop_back(input_buffer)
                /\ UNCHANGED <<pc, verdict, user_input, conversation, apiCalls, messages>>
           ELSE IF k = BACKSPACE
           THEN /\ input_buffer' = pop_back(input_buffer)
                /\ UNCHANGED <<pc, verdict, user_input, conversation, apiCalls, messages>>
           ELSE /\ input_buffer' = process_key_input(k, input_buffer).buffer
                /\ IF /\ process_key_input(k, input_buffer).added
                      /\ check_unlock_phrase(input_buffer', unlock_phrase)
                   THEN /\ messages' = messages
                        /\ ReturnAutoUnlock
                   ELSE UNCHANGED <<pc, verdict, user_input, conversation, apiCalls,
                                    messages>>
    /\ drawn' = TRUE
    /\ UNCHANGED <<unlock_phrase, screen_context, turn, response, result, kbHeld,
                   ptrHeld, kb_grab, ptr_grab, grabAttempts, mapped, everMapped,
                   minutes, clock>>
    /\ UNCHANGED <<pending, renderer, worker, service, period, monitor>>

\* KeyPress without the emptiness test of the Enter arm: an empty line is
\* submitted like any other
KeyPressSubmitsEmpty(lines) ==
    /\ pc = "input"
    /\ \E k \in KeysOf(lines) :
        /\ UserMayPress(k, lines)
        /\ last_key' = k
        /\ IF k = ENTER
           THEN IF FALSE
                THEN UNCHANGED <<pc, verdict, user_input, conversation, apiCalls,
                                 messages, input_buffer>>
                ELSE IF to_lowercase(trim(input_buffer)) = STR_UNLOCK_PLS
                THEN /\ messages' = Append(messages, Decision(UNLOCKING_AUTO))
                     /\ input_buffer' = input_buffer
                     /\ ReturnAutoUnlock
                ELSE /\ input_buffer' = <<>>
                     /\ SubmitLine(input_buffer)
           ELSE IF k = ESCAPE
           THEN /\ input_buffer' = <<>>
                /\ UNCHANGED <<pc, verdict, user_input, conversation, apiCalls, messages>>
           ELSE IF k = BACKSPACE
           THEN /\ input_buffer' = pop_back(input_buffer)
                /\ UNCHANGED <<pc, verdict, user_input, conversation, apiCalls, messages>>
           ELSE /\ input_buffer' = process_key_input(k, input_buffer).buffer
                /\ IF /\ process_key_input(k, input_buffer).added
                      /\ check_unlock_phrase(input_buffer', unlock_phrase)
                   THEN /\ messages' = messages
                        /\ ReturnAutoUnlock
                   ELSE UNCHANGED <<pc, verdict, user_input, conversation, apiCalls,
                                    messages>>
    /\ drawn' = TRUE
    /\ UNCHANGED <<unlock_phrase, screen_context, turn, response, result, kbHeld,
                   ptrHeld, kb_grab, ptr_grab, grabAttempts, mapped, everMapped,
                   minutes, clock>>
    /\ UNCHANGED <<pending, renderer, worker, service, period, monitor>>

KeyPressOf(lines) ==
    /\ pc = "input"
    /\ \E k \in KeysOf(lines) :
        /\ UserMayPress(k, lines)
        /\ last_key' = k
        /\ IF k = ENTER
           THEN IF input_buffer = <<>>
                THEN UNCHANGED <<pc, verdict, user_input, conversation, apiCalls,
                                 messages, input_buffer>>
                ELSE IF to_lowercase(trim(input_buffer)) = STR_UNLOCK_PLS
                THEN /\ messages' = Append(messages, Decision(UNLOCKING_AUTO))
                     /\ input_buffer' = input_buffer
                     /\ ReturnAutoUnlock
                ELSE /\ input_buffer' = <<>>
                     /\ SubmitLine(input_buffer)
           ELSE IF k = ESCAPE
           THEN /\ input_buffer' = <<>>
                /\ UNCHANGED <<pc, verdict, user_input, conversation, apiCalls, messages>>
           ELSE IF k = BACKSPACE
           THEN /\ input_buffer' = pop_back(input_buffer)
                /\ UNCHANGED <<pc, verdict, user_input, conversation, apiCalls, messages>>
           ELSE /\ input_buffer' = process_key_input(k, input_buffer).buffer
                /\ IF /\ process_key_input(k, input_buffer).added
                      /\ check_unlock_phrase(input_buffer', unlock_phrase)
                   THEN /\ messages' = messages
                        /\ ReturnAutoUnlock
                   ELSE UNCHANGED <<pc, verdict, user_input, conversation, apiCalls,
                                    messages>>
    /\ drawn' = TRUE
    /\ UNCHANGED <<unlock_phrase, screen_context, turn, response, result, kbHeld,
                   ptrHeld, kb_grab, ptr_grab, grabAttempts, mapped, everMapped,
                   minutes, clock>>
    /\ UNCHANGED <<pending, renderer, worker, service, period, monitor>>

\* a key of the user of the session
KeyPress == KeyPressOf(TypedLines)

\* an Expose event: draw_chat_window and nothing else
Expose ==
    /\ pc = "input"
    /\ drawn' = TRUE
    /\ UNCHANGED <<pc, unlock_phrase, screen_context, messages, conversation,
                   input_buffer, turn, user_input, response, verdict, apiCalls, result,
                   kbHeld, ptrHeld, kb_grab, ptr_grab, grabAttempts, mapped,
                   everMapped, minutes, clock>>
    /\ UNCHANGED <<pending, last_key, renderer, worker, service, period, monitor>>

(***************************************************************************)
(* call_claude_api and the rest of process_message_with_claude.            *)
(***************************************************************************)
call_claude_api(resp) ==
    IF resp.kind # "json" THEN [ok |-> FALSE, text |-> <<>>]
    ELSE IF resp.content = <<>> THEN [ok |-> TRUE, text |-> <<>>]
    ELSE [ok |-> TRUE, text |-> trim(resp.content[1])]

\* loop_continues for the range 0..=MAX_MESSAGES, one turn more: C1 fails on it
loop_continues_inclusive(next) == next <= MAX_MESSAGES

\* for i in 0..MAX_MESSAGES: whether iteration next runs
loop_continues(next) == next < MAX_MESSAGES

\* the Decision entry of a verdict of process_message_with_claude
decision_entry(v) ==
    IF v.tag = "Unlocked" THEN Decision(UNLOCKING) ELSE Decision(locked_for(v.minutes))

\* ApiReturns staying in the same turn after a reply without a decision: the
\* loop would never reach its limit
ApiReturnsSameTurn ==
    /\ pc = "thinking"
    /\ \E resp \in Responses :
        /\ call_claude_api(resp).ok
        /\ LET text == call_claude_api(resp).text
               shown == Append(pop_back(messages), Assistant(text))
               v == check_decision(text)
           IN  /\ response' = text
               /\ conversation' = Append(conversation, Message("assistant", text))
               /\ IF v # NoDecision
                  THEN /\ messages' = Append(shown, decision_entry(v))
                       /\ verdict' = v
                       /\ pc' = "verdict"
                       /\ UNCHANGED <<turn, input_buffer>>
                  ELSE IF loop_continues(turn + 1)
                  THEN /\ messages' = shown
                       /\ verdict' = NoDecision
                       /\ pc' = "input"
                       /\ turn' = turn
                       /\ input_buffer' = <<>>
                  ELSE /\ messages' = Append(shown, Decision(locked_for(MIN_LOCK_MINUTES)))
                       /\ verdict' = TimedLock(MIN_LOCK_MINUTES)
                       /\ pc' = "verdict"
                       /\ turn' = turn + 1
                       /\ input_buffer' = input_buffer
    /\ drawn' = TRUE
    /\ UNCHANGED <<unlock_phrase, screen_context, user_input, apiCalls, result, kbHeld,
                   ptrHeld, kb_grab, ptr_grab, grabAttempts, mapped, everMapped,
                   minutes, clock>>
    /\ UNCHANGED <<pending, last_key, renderer, worker, service, period, monitor>>

\* ApiReturns leaving the thinking entry in the transcript
ApiReturnsKeepsThinking ==
    /\ pc = "thinking"
    /\ \E resp \in Responses :
        /\ call_claude_api(resp).ok
        /\ LET text == call_claude_api(resp).text
               shown == Append(messages, Assistant(text))
               v == check_decision(text)
           IN  /\ response' = text
               /\ conversation' = Append(conversation, Message("assistant", text))
               /\ IF v # NoDecision
                  THEN /\ messages' = Append(shown, decision_entry(v))
                       /\ verdict' = v
                       /\ pc' = "verdict"
                       /\ UNCHANGED <<turn, input_buffer>>
                  ELSE IF loop_continues(turn + 1)
                  THEN /\ messages' = shown
                       /\ verdict' = NoDecision
                       /\ pc' = "input"
                       /\ turn' = turn + 1
                       /\ input_buffer' = <<>>
                  ELSE /\ messages' = Append(shown, Decision(locked_for(MIN_LOCK_MINUTES)))
                       /\ verdict' = TimedLock(MIN_LOCK_MINUTES)
                       /\ pc' = "verdict"
                       /\ turn' = turn + 1
                       /\ input_buffer' = input_buffer
    /\ drawn' = TRUE
    /\ UNCHANGED <<unlock_phrase, screen_context, user_input, apiCalls, result, kbHeld,
                   ptrHeld, kb_grab, ptr_grab, grabAttempts, mapped, everMapped,
                   minutes, clock>>
    /\ UNCHANGED <<pending, last_key, renderer, worker, service, period, monitor>>

\* the call returned a reply
ApiReturns ==
    /\ pc = "thinking"
    /\ \E resp \in Responses :
        /\ call_claude_api(resp).ok
        /\ LET text == call_claude_api(resp).text
               shown == Append(pop_back(messages), Assistant(text))
               v == check_decision(text)
           IN  /\ response' = text
               /\ conversation' = Append(conversation, Message("assistant", text))
               /\ IF v # NoDecision
                  THEN /\ messages' = Append(shown, decision_entry(v))
                       /\ verdict' = v
                       /\ pc' = "verdict"
                       /\ UNCHANGED <<turn, input_buffer>>
                  ELSE IF loop_continues(turn + 1)
                  THEN /\ messages' = shown
                       /\ verdict' = NoDecision
                       /\ pc' = "input"
                       /\ turn' = turn + 1
                       /\ input_buffer' = <<>>
                  ELSE /\ messages' = Append(shown, Decision(locked_for(MIN_LOCK_MINUTES)))
                       /\ verdict' = TimedLock(MIN_LOCK_MINUTES)
                       /\ pc' = "verdict"
                       /\ turn' = turn + 1
                       /\ input_buffer' = input_buffer
    /\ drawn' = TRUE
    /\ UNCHANGED <<unlock_phrase, screen_context, user_input, apiCalls, result, kbHeld,
                   ptrHeld, kb_grab, ptr_grab, grabAttempts, mapped, everMapped,
                   minutes, clock>>
    /\ UNCHANGED <<pending, last_key, renderer, worker, service, period, monitor>>

\* ApiFails answering a failed call with the minimum lock: C7 fails on it
ApiFailsGuess ==
    /\ pc = "thinking"
    /\ \E resp \in Responses : ~call_claude_api(resp).ok
    /\ pc' = "verdict"
    /\ verdict' = TimedLock(MIN_LOCK_MINUTES)
    /\ messages' = Append(pop_back(messages), Decision(locked_for(MIN_LOCK_MINUTES)))
    /\ UNCHANGED <<unlock_phrase, screen_context, conversation, input_buffer, turn,
                   user_input, response, apiCalls, result, kbHeld, ptrHeld, kb_grab,
                   ptr_grab, grabAttempts, mapped, everMapped, drawn, minutes, clock>>
    /\ UNCHANGED <<pending, last_key, renderer, worker, service, period, monitor>>

\* the call failed: `?` of process_message_with_claude, handle_interactive_chat
\* and decide, then the Err arm of run_interactive_lock_screen
ApiFails ==
    /\ pc = "thinking"
    /\ \E resp \in Responses : ~call_claude_api(resp).ok
    /\ Propagate("RemoteError")

\* a request on the X connection or wait_for_event failed
XError ==
    /\ pc \in {"grab", "input", "thinking", "timer_grab", "timer_run"}
    /\ Propagate("XError")

(***************************************************************************)
(* The return of decide and the Ok arm of run_interactive_lock_screen.     *)
(***************************************************************************)
\* DecideReturn handing the verdict back at once, without display_lock_timer
DecideReturnNoTimer ==
    /\ pc = "verdict"
    /\ DropSession
    /\ pc' = "done"
    /\ result' = Ok(verdict)
    /\ minutes' = verdict.minutes
    /\ UNCHANGED <<unlock_phrase, screen_context, turn, verdict, apiCalls, kb_grab,
                   ptr_grab, grabAttempts, everMapped, drawn, clock>>
    /\ UNCHANGED <<pending, renderer, worker, service, period, monitor>>
    /\ last_key' = 0

DecideReturn ==
    /\ pc = "verdict"
    /\ DropSession
    /\ IF verdict.tag = "Unlocked"
       THEN /\ pc' = "done"
            /\ result' = Ok(Unlocked)
            /\ minutes' = minutes
       ELSE /\ pc' = "timer_start"
            /\ minutes' = verdict.minutes
            /\ result' = result
    /\ UNCHANGED <<unlock_phrase, screen_context, turn, verdict, apiCalls, kb_grab,
                   ptr_grab, grabAttempts, everMapped, drawn, clock>>
    /\ UNCHANGED <<pending, renderer, worker, service, period, monitor>>
    /\ last_key' = 0

(***************************************************************************)
(* timer::display_lock_timer.                                              *)
(***************************************************************************)
TimerCreate ==
    /\ pc = "timer_start"
    /\ pc' = "timer_grab"
    /\ grabAttempts' = 0
    /\ kb_grab' = "none"
    /\ ptr_grab' = "none"
    /\ UNCHANGED <<unlock_phrase, screen_context, messages, conversation,
                   input_buffer, turn, user_input, response, verdict, apiCalls, result,
                   kbHeld, ptrHeld, mapped, everMapped, drawn, minutes, clock>>
    /\ UNCHANGED <<pending, last_key, renderer, worker, service, period, monitor>>

TimerCreateFails ==
    /\ pc = "timer_start"
    /\ \E e \in {"ConnectionError", "CreateError"} : Propagate(e)

\* one pass of the loop of grab_func; on success the timer window is mapped
\* and start_time is taken
TimerGrabAttempt ==
    /\ pc = "timer_grab"
    /\ \E kb \in GrabStatus, ptr \in GrabStatus :
        /\ kb_grab' = kb
        /\ ptr_grab' = ptr
        /\ IF grab_succeeded(kb, ptr)
           THEN /\ pc' = "timer_run"
                /\ grabAttempts' = 0
                /\ kbHeld' = held_after(kbHeld, kb, "timer")
                /\ ptrHeld' = held_after(ptrHeld, ptr, "timer")
                /\ mapped' = mapped \cup {"timer"}
                /\ everMapped' = everMapped \cup {"timer"}
                /\ clock' = 0
                /\ UNCHANGED <<result, messages, conversation, input_buffer,
                               user_input, response>>
           ELSE IF grabAttempts + 1 < GRAB_TRIES
           THEN /\ grabAttempts' = grabAttempts + 1
                /\ kbHeld' = held_after(kbHeld, kb, "timer")
                /\ ptrHeld' = held_after(ptrHeld, ptr, "timer")
                /\ UNCHANGED <<pc, result, mapped, everMapped, clock, messages,
                               conversation, input_buffer, user_input, response>>
           ELSE /\ pc' = "done"
                /\ grabAttempts' = grabAttempts + 1
                /\ result' = Err("GrabError")
                /\ DropSession
                /\ UNCHANGED <<everMapped, clock>>
    /\ UNCHANGED <<unlock_phrase, screen_context, turn, verdict, apiCalls, drawn,
                   minutes>>
    /\ UNCHANGED <<pending, last_key, renderer, worker, service, period, monitor>>

lock_duration(m) == m * TICKS_PER_MINUTE

\* the X server queues a key press or an expose event for the timer's
\* connection, which holds the keyboard
TimerEvent ==
    /\ pc = "timer_run"
    /\ Len(pending) < MaxPending
    /\ \E e \in {"KeyPress", "Expose"} : pending' = Append(pending, e)
    /\ UNCHANGED <<pc, unlock_phrase, screen_context, messages, conversation,
                   input_buffer, turn, user_input, response, verdict, apiCalls, result,
                   kbHeld, ptrHeld, kb_grab, ptr_grab, grabAttempts, mapped,
                   everMapped, drawn, minutes, clock>>
    /\ UNCHANGED <<last_key, renderer, worker, service, period, monitor>>

\* TimerTick ending the loop on a key press, as the comment above the drain
\* loop has it ("any key exits the timer")
TimerTickKeyExits ==
    /\ pc = "timer_run"
    /\ pending' = <<>>
    /\ IF clock >= lock_duration(minutes) \/ \E k \in 1..Len(pending) : pending[k] = "KeyPress"
       THEN /\ pc' = "done"
            /\ result' = Ok(TimedLock(minutes))
            /\ DropSession
            /\ clock' = clock
       ELSE /\ \E d \in TimeSteps : clock' = clock + d
            /\ UNCHANGED <<pc, result, messages, conversation, input_buffer,
                           user_input, response, kbHeld, ptrHeld, mapped>>
    /\ UNCHANGED <<unlock_phrase, screen_context, turn, verdict, apiCalls, kb_grab,
                   ptr_grab, grabAttempts, everMapped, drawn, minutes>>
    /\ UNCHANGED <<last_key, renderer, worker, service, period, monitor>>

\* TimerTick with start_time taken again in every iteration: the elapsed time
\* starts from zero each time
TimerTickRestartsClock ==
    /\ pc = "timer_run"
    /\ pending' = <<>>
    /\ IF clock >= lock_duration(minutes)
       THEN /\ pc' = "done"
            /\ result' = Ok(TimedLock(minutes))
            /\ DropSession
            /\ clock' = clock
       ELSE /\ clock' = 0
            /\ UNCHANGED <<pc, result, messages, conversation, input_buffer,
                           user_input, response, kbHeld, ptrHeld, mapped>>
    /\ UNCHANGED <<unlock_phrase, screen_context, turn, verdict, apiCalls, kb_grab,
                   ptr_grab, grabAttempts, everMapped, drawn, minutes>>
    /\ UNCHANGED <<last_key, renderer, worker, service, period, monitor>>

\* one iteration of the timer loop: the pending events are drained and ignored,
\* the elapsed time is read, and the loop sleeps or ends; after the loop the
\* window is unmapped and destroyed and the entry point returns
\* TimedLock(minutes)
TimerTick ==
    /\ pc = "timer_run"
    /\ pending' = <<>>
    /\ IF clock >= lock_duration(minutes)
       THEN /\ pc' = "done"
            /\ result' = Ok(TimedLock(minutes))
            /\ DropSession
            /\ clock' = clock
       ELSE /\ \E d \in TimeSteps : clock' = clock + d
            /\ UNCHANGED <<pc, result, messages, conversation, input_buffer,
                           user_input, response, kbHeld, ptrHeld, mapped>>
    /\ UNCHANGED <<unlock_phrase, screen_context, turn, verdict, apiCalls, kb_grab,
                   ptr_grab, grabAttempts, everMapped, drawn, minutes>>
    /\ UNCHANGED <<last_key, renderer, worker, service, period, monitor>>

Next ==
    \/ DecideCreate
    \/ DecideCreateFails
    \/ ChatGrabAttempt
    \/ KeyPress
    \/ Expose
    \/ ApiReturns
    \/ ApiFails
    \/ XError
    \/ DecideReturn
    \/ TimerCreate
    \/ TimerCreateFails
    \/ TimerGrabAttempt
    \/ TimerEvent
    \/ TimerTick

Spec == Init /\ [][Next]_vars

(***************************************************************************)
(* display_lock_timer on its own, called with the minutes of a verdict.    *)
(***************************************************************************)
TimerMinutes == {1, 2}

\* decide has returned TimedLock(minutes) and its connection is closed
InitTimer ==
    /\ pc = "timer_start"
    /\ unlock_phrase = STR_UNLOCK
    /\ screen_context = <<>>
    /\ messages = <<>>
    /\ conversation = <<>>
    /\ input_buffer = <<>>
    /\ turn = 0
    /\ user_input = <<>>
    /\ response = <<>>
    /\ minutes \in TimerMinutes
    /\ verdict = TimedLock(minutes)
    /\ apiCalls = 1
    /\ result = Running
    /\ kbHeld = "none"
    /\ ptrHeld = "none"
    /\ kb_grab = "SUCCESS"
    /\ ptr_grab = "SUCCESS"
    /\ grabAttempts = 0
    /\ mapped = {}
    /\ everMapped = {"chat"}
    /\ drawn = TRUE
    /\ clock = 0
    /\ pending = <<>>
    /\ last_key = 0
    /\ ServiceIdle
    /\ PeriodIdle
    /\ MonitorIdle
    /\ RendererIdle
    /\ WorkerIdle

NextTimer ==
    \/ TimerCreate
    \/ TimerCreateFails
    \/ TimerGrabAttempt
    \/ TimerEvent
    \/ TimerTick
    \/ XError

SpecTimer == InitTimer /\ [][NextTimer]_vars

\* the loop of the timer keeps running and every iteration of it takes time
FairTimer == SpecTimer /\ WF_vars(TimerTick)

(***************************************************************************)
(* The verdict parser on its own: a reply is put together from Pieces and  *)
(* check_decision is applied to it.                                        *)
(***************************************************************************)
\* the replies made of at most n pieces
RECURSIVE Replies(_)
Replies(n) ==
    IF n = 0 THEN {<<>>}
    ELSE Replies(n - 1) \cup {r \o p : r \in Replies(n - 1), p \in Pieces}

InitReply ==
    /\ pc = "start"
    /\ unlock_phrase = STR_UNLOCK
    /\ screen_context = <<>>
    /\ messages = <<>>
    /\ conversation = <<>>
    /\ input_buffer = <<>>
    /\ turn = 0
    /\ user_input = <<>>
    /\ response \in Replies(MaxPieces)
    /\ verdict = Pending
    /\ apiCalls = 0
    /\ result = Running
    /\ kbHeld = "none"
    /\ ptrHeld = "none"
    /\ kb_grab = "none"
    /\ ptr_grab = "none"
    /\ grabAttempts = 0
    /\ mapped = {}
    /\ everMapped = {}
    /\ drawn = FALSE
    /\ minutes = 0
    /\ clock = 0
    /\ pending = <<>>
    /\ last_key = 0
    /\ ServiceIdle
    /\ PeriodIdle
    /\ MonitorIdle
    /\ RendererIdle
    /\ WorkerIdle

Evaluate ==
    /\ verdict = Pending
    /\ verdict' = check_decision(response)
    /\ UNCHANGED <<pc, unlock_phrase, screen_context, messages, conversation,
                   input_buffer, turn, user_input, response, apiCalls, result, kbHeld,
                   ptrHeld, kb_grab, ptr_grab, grabAttempts, mapped, everMapped,
                   drawn, minutes, clock>>
    /\ UNCHANGED <<pending, last_key, renderer, worker, service, period, monitor>>

NextReply == Evaluate

SpecReply == InitReply /\ [][NextReply]_vars


(***************************************************************************)
(* draw_chat_window.  A drawn line is the text, x and y of one draw_text    *)
(* call, with the transcript entry it belongs to (0 for the input field).  *)
(***************************************************************************)
y_pos == 50
line_height == 20
max_line_length == 80

\* `u16 as i16`
as_i16(n) == IF n >= 32768 THEN n - 65536 ELSE n

\* i16 division, which truncates towards zero
div_trunc(a, b) == IF a >= 0 THEN a \div b ELSE -((-a) \div b)

max_visible_lines(height) == div_trunc(as_i16(height) - 120, line_height)

\* `max_visible_lines as usize` of a negative i16 is 2^64 - 32768 or more, above
\* every length a VecDeque can have: the comparison is false and start_idx is 0
start_idx(len, height) ==
    IF max_visible_lines(height) < 0 THEN 0
    ELSE IF len > max_visible_lines(height) THEN len - max_visible_lines(height)
    ELSE 0

\* str::split_whitespace
RECURSIVE split_whitespace(_)
split_whitespace(t) ==
    LET starts == {i \in 1..Len(t) : ~is_whitespace(t[i])}
    IN  IF starts = {} THEN <<>>
        ELSE LET a == SetMin(starts)
                 stops == {i \in a..Len(t) : is_whitespace(t[i])}
                 b == IF stops = {} THEN Len(t) + 1 ELSE SetMin(stops)
             IN  <<SubSeq(t, a, b - 1)>> \o split_whitespace(SubSeq(t, b, Len(t)))

\* the word-wrap loop over the words from the k-th on, with the lines pushed
\* so far and current_line
RECURSIVE wrap(_, _, _, _)
wrap(words, k, lines, current_line) ==
    IF k > Len(words)
    THEN IF current_line # <<>> THEN Append(lines, current_line) ELSE lines
    ELSE IF Len(current_line) + Len(words[k]) + 1 > max_line_length
    THEN wrap(words, k + 1, Append(lines, current_line), words[k])
    ELSE IF current_line # <<>>
    THEN wrap(words, k + 1, lines, current_line \o <<32>> \o words[k])
    ELSE wrap(words, k + 1, lines, words[k])

DrawnLine(i, text, x, y) == [entry |-> i, text |-> text, x |-> x, y |-> y]

\* the draw_text calls of the match arm of one entry, the i-th, at height y
draw_entry(message, i, y) ==
    IF message.kind = "System"
    THEN <<DrawnLine(i, <<83, 121, 115, 116, 101, 109, 58, 32>> \o message.text, 20, y)>> \* "System: "
    ELSE IF message.kind = "User"
    THEN <<DrawnLine(i, <<89, 111, 117, 58, 32>> \o message.text, 20, y)>> \* "You: "
    ELSE IF message.kind = "Decision"
    THEN <<DrawnLine(i, <<61, 61, 61, 32>> \o message.text \o <<32, 61, 61, 61>>, 20, y)>> \* "=== ", " ==="
    ELSE LET lines == wrap(split_whitespace(message.text), 1, <<>>, <<>>)
         IN  [n \in 1..Len(lines) |->
                IF n = 1
                THEN DrawnLine(i, <<67, 108, 97, 117, 100, 101, 58, 32>> \o lines[1], 20, y) \* "Claude: "
                ELSE DrawnLine(i, <<32, 32, 32, 32, 32, 32, 32, 32>> \o lines[n], 20, \* eight spaces
                               y + (n - 1) * (line_height \div 2))]

\* the lines of the entries from the i-th on
RECURSIVE draw_from(_, _, _)
draw_from(msgs, i, start) ==
    IF i > Len(msgs) THEN <<>>
    ELSE draw_entry(msgs[i], i, y_pos + (i - 1 - start) * line_height)
            \o draw_from(msgs, i + 1, start)

draw_chat_window(msgs, buffer, height) ==
    LET start == start_idx(Len(msgs), height)
        input_y == as_i16(height) - 50
    IN  draw_from(msgs, start + 1, start)
            \o <<DrawnLine(0, <<73, 110, 112, 117, 116, 58, 32>>, 20, input_y), \* "Input: "
                 DrawnLine(0, buffer, 80, input_y)>>

\* a reply of two words of 44 letters, which does not fit one line
LongReply == [k \in 1..89 |-> IF k = 45 THEN 32 ELSE 97]

\* a reply of three words of 44 letters, drawn as three lines
LongerReply == [k \in 1..134 |-> IF k \in {45, 90} THEN 32 ELSE 97]

Heights == {100, 130, 170, 210, 40000}

Entries == { System(INTRO), User(<<104, 105>>), Assistant(<<>>), Assistant(<<119, 104, 121>>), \* "hi", "", "why"
             Assistant(LongReply), Assistant(LongerReply), Decision(UNLOCKING) }

\* the transcripts of at most MaxEntries entries
MaxEntries == 3

RECURSIVE Transcripts(_)
Transcripts(n) ==
    IF n = 0 THEN {<<>>}
    ELSE Transcripts(n - 1) \cup {Append(t, e) : t \in Transcripts(n - 1), e \in Entries}

\* a session waiting for input, with some transcript on some screen
InitDraw ==
    /\ pc = "input"
    /\ unlock_phrase = STR_UNLOCK
    /\ screen_context = <<>>
    /\ messages \in Transcripts(MaxEntries)
    /\ conversation = initialize_conversation(<<>>)
    /\ input_buffer \in {<<>>, <<104, 105>>} \* "", "hi"
    /\ turn = 0
    /\ user_input = <<>>
    /\ response = <<>>
    /\ verdict = Pending
    /\ apiCalls = 0
    /\ result = Running
    /\ kbHeld = "chat"
    /\ ptrHeld = "chat"
    /\ kb_grab = "SUCCESS"
    /\ ptr_grab = "SUCCESS"
    /\ grabAttempts = 0
    /\ mapped = {"chat"}
    /\ everMapped = {"chat"}
    /\ drawn = FALSE
    /\ minutes = 0
    /\ clock = 0
    /\ pending = <<>>
    /\ last_key = 0
    /\ ServiceIdle
    /\ PeriodIdle
    /\ MonitorIdle
    /\ screen_height \in Heights
    /\ frame = <<>>
    /\ WorkerIdle

\* Redraw taking the entries above the visible window out of the transcript
RedrawDropsHidden ==
    /\ frame' = draw_chat_window(messages, input_buffer, screen_height)
    /\ drawn' = TRUE
    /\ messages' = SubSeq(messages, start_idx(Len(messages), screen_height) + 1,
                          Len(messages))
    /\ UNCHANGED <<pc, unlock_phrase, screen_context, conversation,
                   input_buffer, turn, user_input, response, verdict, apiCalls, result,
                   kbHeld, ptrHeld, kb_grab, ptr_grab, grabAttempts, mapped,
                   everMapped, minutes, clock, pending, last_key, screen_height>>
    /\ UNCHANGED <<worker, service, period, monitor>>

\* one call of draw_chat_window
Redraw ==
    /\ frame' = draw_chat_window(messages, input_buffer, screen_height)
    /\ drawn' = TRUE
    /\ UNCHANGED <<pc, unlock_phrase, screen_context, messages, conversation,
                   input_buffer, turn, user_input, response, verdict, apiCalls, result,
                   kbHeld, ptrHeld, kb_grab, ptr_grab, grabAttempts, mapped,
                   everMapped, minutes, clock, pending, last_key, screen_height>>
    /\ UNCHANGED <<worker, service, period, monitor>>

NextDraw == Redraw

SpecDraw == InitDraw /\ [][NextDraw]_vars

(***************************************************************************)
(* chat::screen_chat_unlock, the worker that talks to the lock screen over *)
(* two channels: it sends ChatMessages on msg_sender and receives the      *)
(* typed lines on input_receiver.  The other side holds the receiver of    *)
(* the first channel and the sender of the second.                         *)
(***************************************************************************)
TEST_INTRO == <<84, 69, 83, 84, 73, 78, 71, 32, 77, 79, 68, 69, 58, 32, 89, 111, 117, 114, 32, 115, 99, 114, 101, 101, 110, 32, 104, 97, 115, 32, 98, 101, 101, 110, 32, 108, 111, 99, 107, 101, 100, 46, 32, 84, 121, 112, 101, 32, 97, 110, 121, 116, 104, 105, 110, 103, 32, 116, 111, 32, 117, 110, 108, 111, 99, 107, 46>> \* "TESTING MODE: Your screen has been locked. Type anything to unlock."
TEST_REPLY == <<84, 104, 97, 110, 107, 115, 32, 102, 111, 114, 32, 116, 101, 115, 116, 105, 110, 103, 32, 116, 104, 101, 32, 111, 110, 45, 115, 99, 114, 101, 101, 110, 32, 99, 104, 97, 116, 46, 32, 73, 39, 108, 108, 32, 117, 110, 108, 111, 99, 107, 32, 121, 111, 117, 114, 32, 115, 99, 114, 101, 101, 110, 32, 110, 111, 119, 46>> \* "Thanks for testing the on-screen chat. I'll unlock your screen now."

\* LockDecision
Unlock == [tag |-> "Unlock", minutes |-> 0, err |-> "none"]
Lock(m) == [tag |-> "Lock", minutes |-> m, err |-> "none"]

\* the lines the other side sends
QueuedLines == { <<104, 105>>, <<32, 111, 107, 10>> } \* "hi", " ok\n"

\* the lines the other side has sent and the worker has not received, at most
MaxQueued == 2

\* the other side sends a line
SendLine ==
    /\ wpc \notin {"idle", "done"}
    /\ input_open
    /\ Len(input_channel) < MaxQueued
    /\ \E l \in QueuedLines : input_channel' = Append(input_channel, l)
    /\ UNCHANGED <<wpc, msg_channel, msg_open, input_open, worker_input, decision>>
    /\ UNCHANGED <<session, renderer, service, period, monitor>>

\* the other side drops its sender of the input channel
CloseInput ==
    /\ wpc \notin {"idle", "done"}
    /\ input_open
    /\ input_open' = FALSE
    /\ UNCHANGED <<wpc, msg_channel, msg_open, input_channel, worker_input, decision>>
    /\ UNCHANGED <<session, renderer, service, period, monitor>>

\* the other side drops its receiver of the message channel
CloseDisplay ==
    /\ wpc \notin {"idle", "done"}
    /\ msg_open
    /\ msg_open' = FALSE
    /\ UNCHANGED <<wpc, msg_channel, input_channel, input_open, worker_input, decision>>
    /\ UNCHANGED <<session, renderer, service, period, monitor>>

\* msg_sender.send(message)?: the message is queued and the worker goes on to
\* next, or the receiver is gone and the SendError is returned
Send(message, next) ==
    IF msg_open
    THEN /\ msg_channel' = Append(msg_channel, message)
         /\ wpc' = next
         /\ decision' = decision
    ELSE /\ msg_channel' = msg_channel
         /\ wpc' = "done"
         /\ decision' = Err("SendError")

WorkerIntro ==
    /\ wpc = "intro"
    /\ Send(System(TEST_INTRO), "recv")
    /\ UNCHANGED <<msg_open, input_channel, input_open, worker_input>>
    /\ UNCHANGED <<session, renderer, service, period, monitor>>

\* WorkerRecv taking a closed and empty channel for an error of the worker
WorkerRecvFails ==
    /\ wpc = "recv"
    /\ IF input_channel # <<>>
       THEN /\ worker_input' = <<Head(input_channel)>>
            /\ input_channel' = Tail(input_channel)
            /\ wpc' = "echo"
            /\ decision' = decision
       ELSE /\ ~input_open
            /\ wpc' = "done"
            /\ decision' = Err("RecvError")
            /\ UNCHANGED <<worker_input, input_channel>>
    /\ UNCHANGED <<msg_channel, msg_open, input_open>>
    /\ UNCHANGED <<session, renderer, service, period, monitor>>

\* input_receiver.recv(): the oldest queued line; with nothing queued the call
\* blocks while a sender exists and fails once there is none
WorkerRecv ==
    /\ wpc = "recv"
    /\ IF input_channel # <<>>
       THEN /\ worker_input' = <<Head(input_channel)>>
            /\ input_channel' = Tail(input_channel)
            /\ wpc' = "echo"
            /\ decision' = decision
       ELSE /\ ~input_open
            /\ wpc' = "done"
            /\ decision' = Ok(Lock(MIN_LOCK_MINUTES))
            /\ UNCHANGED <<worker_input, input_channel>>
    /\ UNCHANGED <<msg_channel, msg_open, input_open>>
    /\ UNCHANGED <<session, renderer, service, period, monitor>>

WorkerEcho ==
    /\ wpc = "echo"
    /\ Send(User(trim(worker_input[1])), "reply")
    /\ UNCHANGED <<msg_open, input_channel, input_open, worker_input>>
    /\ UNCHANGED <<session, renderer, service, period, monitor>>

\* the test response, followed by the sleep of one second
WorkerReply ==
    /\ wpc = "reply"
    /\ Send(Assistant(TEST_REPLY), "decision")
    /\ UNCHANGED <<msg_open, input_channel, input_open, worker_input>>
    /\ UNCHANGED <<session, renderer, service, period, monitor>>

\* WorkerDecision without the `?` of its send: Unlock is returned whether the
\* Decision message was accepted or not
WorkerDecisionUnchecked ==
    /\ wpc = "decision"
    /\ wpc' = "done"
    /\ IF msg_open
       THEN msg_channel' = Append(msg_channel, Decision(UNLOCKING))
       ELSE msg_channel' = msg_channel
    /\ decision' = Ok(Unlock)
    /\ UNCHANGED <<msg_open, input_channel, input_open, worker_input>>
    /\ UNCHANGED <<session, renderer, service, period, monitor>>

\* the Decision message and the return of Unlock
WorkerDecision ==
    /\ wpc = "decision"
    /\ wpc' = "done"
    /\ IF msg_open
       THEN /\ msg_channel' = Append(msg_channel, Decision(UNLOCKING))
            /\ decision' = Ok(Unlock)
       ELSE /\ msg_channel' = msg_channel
            /\ decision' = Err("SendError")
    /\ UNCHANGED <<msg_open, input_channel, input_open, worker_input>>
    /\ UNCHANGED <<session, renderer, service, period, monitor>>

\* screen_chat_unlock is called with two fresh channels
InitWorker ==
    /\ pc = "start"
    /\ unlock_phrase = STR_UNLOCK
    /\ screen_context = <<>>
    /\ messages = <<>>
    /\ conversation = <<>>
    /\ input_buffer = <<>>
    /\ turn = 0
    /\ user_input = <<>>
    /\ response = <<>>
    /\ verdict = Pending
    /\ apiCalls = 0
    /\ result = Running
    /\ kbHeld = "none"
    /\ ptrHeld = "none"
    /\ kb_grab = "none"
    /\ ptr_grab = "none"
    /\ grabAttempts = 0
    /\ mapped = {}
    /\ everMapped = {}
    /\ drawn = FALSE
    /\ minutes = 0
    /\ clock = 0
    /\ pending = <<>>
    /\ last_key = 0
    /\ ServiceIdle
    /\ PeriodIdle
    /\ MonitorIdle
    /\ RendererIdle
    /\ wpc = "intro"
    /\ msg_channel = <<>>
    /\ msg_open = TRUE
    /\ input_channel = <<>>
    /\ input_open = TRUE
    /\ worker_input = <<>>
    /\ decision = Running

\* the steps of the worker
WorkerStep ==
    \/ WorkerIntro
    \/ WorkerRecv
    \/ WorkerEcho
    \/ WorkerReply
    \/ WorkerDecision

NextWorker ==
    \/ SendLine
    \/ CloseInput
    \/ CloseDisplay
    \/ WorkerIntro
    \/ WorkerRecv
    \/ WorkerEcho
    \/ WorkerReply
    \/ WorkerDecision

SpecWorker == InitWorker /\ [][NextWorker]_vars

\* the worker runs on a thread of its own: a step it can take is taken
FairWorker == SpecWorker /\ WF_vars(WorkerStep)

(***************************************************************************)
(* call_claude_api on its own: the service has sent something back and the *)
(* function turns it into its return value.                                *)
(***************************************************************************)
\* the texts of the content blocks of a response
BlockTexts == ReplyTexts \cup { <<>>, <<32, 10>> } \* "", " \n"

\* the content lists of a response, of at most MaxBlocks blocks
MaxBlocks == 2

RECURSIVE Contents(_)
Contents(n) ==
    IF n = 0 THEN {<<>>}
    ELSE Contents(n - 1) \cup {Append(c, t) : c \in Contents(n - 1), t \in BlockTexts}

\* what can come back: no response at all, a body that is not the JSON of an
\* AnthropicResponse, or such a body with its content list
ApiResponses ==
    {[kind |-> "transport_error", content |-> <<>>],
     [kind |-> "malformed", content |-> <<>>]}
        \cup {[kind |-> "json", content |-> c] : c \in Contents(MaxBlocks)}

InitApi ==
    /\ pc = "thinking"
    /\ unlock_phrase = STR_UNLOCK
    /\ screen_context = <<>>
    /\ messages = <<System(INTRO), User(<<104, 105>>), System(THINKING)>> \* "hi"
    /\ conversation = Append(initialize_conversation(<<>>), Message("user", <<104, 105>>)) \* "hi"
    /\ input_buffer = <<>>
    /\ turn = 0
    /\ user_input = <<104, 105>> \* "hi"
    /\ response = <<>>
    /\ verdict = Pending
    /\ apiCalls = 1
    /\ result = Running
    /\ kbHeld = "chat"
    /\ ptrHeld = "chat"
    /\ kb_grab = "SUCCESS"
    /\ ptr_grab = "SUCCESS"
    /\ grabAttempts = 0
    /\ mapped = {"chat"}
    /\ everMapped = {"chat"}
    /\ drawn = TRUE
    /\ minutes = 0
    /\ clock = 0
    /\ pending = <<>>
    /\ last_key = ENTER
    /\ api_response \in ApiResponses
    /\ api_result = <<>>
    /\ PeriodIdle
    /\ MonitorIdle
    /\ RendererIdle
    /\ WorkerIdle

\* the call returns
CallApi ==
    /\ api_result = <<>>
    /\ api_result' = <<call_claude_api(api_response)>>
    /\ UNCHANGED <<session, renderer, worker, api_response, period, monitor>>

NextApi == CallApi

SpecApi == InitApi /\ [][NextApi]_vars

(***************************************************************************)
(* process_key_input on its own, over key codes on both sides of every     *)
(* range it tests.                                                         *)
(***************************************************************************)
KeyCodes ==
    { 31, 32, 33, 47, 48, 57, 58, 64, 65, 90, 91, 96, 97, 122, 123, 127, 233,
      BACKSPACE, ENTER, ESCAPE,
      65289,      \* 0xff09, Tab
      65456,      \* 0xffb0, KP_0
      65505,      \* 0xffe1, Shift_L
      16777281 }  \* 0x01000041, the Unicode keysym of "A"

\* the characters a line under test has, at most
MaxTyped == 2

InitKeys ==
    /\ pc = "input"
    /\ unlock_phrase = STR_UNLOCK
    /\ screen_context = <<>>
    /\ messages = <<System(INTRO)>>
    /\ conversation = initialize_conversation(<<>>)
    /\ input_buffer = <<>>
    /\ turn = 0
    /\ user_input = <<>>
    /\ response = <<>>
    /\ verdict = Pending
    /\ apiCalls = 0
    /\ result = Running
    /\ kbHeld = "chat"
    /\ ptrHeld = "chat"
    /\ kb_grab = "SUCCESS"
    /\ ptr_grab = "SUCCESS"
    /\ grabAttempts = 0
    /\ mapped = {"chat"}
    /\ everMapped = {"chat"}
    /\ drawn = TRUE
    /\ minutes = 0
    /\ clock = 0
    /\ pending = <<>>
    /\ last_key = 0
    /\ ServiceIdle
    /\ PeriodIdle
    /\ MonitorIdle
    /\ RendererIdle
    /\ WorkerIdle

\* one call of process_key_input
ProcessKey ==
    /\ Len(input_buffer) < MaxTyped
    /\ \E k \in KeyCodes :
        /\ last_key' = k
        /\ input_buffer' = process_key_input(k, input_buffer).buffer
    /\ UNCHANGED <<pc, unlock_phrase, screen_context, messages, conversation, turn,
                   user_input, response, verdict, apiCalls, result, kbHeld, ptrHeld,
                   kb_grab, ptr_grab, grabAttempts, mapped, everMapped, drawn,
                   minutes, clock, pending>>
    /\ UNCHANGED <<renderer, worker, service, period, monitor>>

NextKeys == ProcessKey

SpecKeys == InitKeys /\ [][NextKeys]_vars

(***************************************************************************)
(* One wait for input of a user who goes for the sentinel of               *)
(* get_user_input: the keys of "__AUTO_UNLOCK__" in their order, of which  *)
(* process_key_input takes the letters, and the unlock phrase.             *)
(***************************************************************************)
SentinelLines == { AUTO_UNLOCK,       \* "__AUTO_UNLOCK__"
                   <<65, 85, 84, 79, 85, 78, 76, 79, 67, 75>>,    \* "AUTOUNLOCK"
                   <<85, 78, 76, 79, 67, 75>> }       \* "UNLOCK"

InitSentinel ==
    /\ pc = "input"
    /\ unlock_phrase \in Phrases
    /\ screen_context \in Contexts
    /\ messages = <<System(INTRO)>>
    /\ conversation = initialize_conversation(screen_context)
    /\ input_buffer = <<>>
    /\ turn = 0
    /\ user_input = <<>>
    /\ response = <<>>
    /\ verdict = Pending
    /\ apiCalls = 0
    /\ result = Running
    /\ kbHeld = "chat"
    /\ ptrHeld = "chat"
    /\ kb_grab = "SUCCESS"
    /\ ptr_grab = "SUCCESS"
    /\ grabAttempts = 0
    /\ mapped = {"chat"}
    /\ everMapped = {"chat"}
    /\ drawn = TRUE
    /\ minutes = 0
    /\ clock = 0
    /\ pending = <<>>
    /\ last_key = 0
    /\ ServiceIdle
    /\ PeriodIdle
    /\ MonitorIdle
    /\ RendererIdle
    /\ WorkerIdle

KeyPressSentinel == KeyPressOf(SentinelLines)

NextSentinel == KeyPressSentinel

SpecSentinel == InitSentinel /\ [][NextSentinel]_vars

(***************************************************************************)
(* enforce_lock_period of chat.rs.  Time is counted in units of 500 ms;    *)
(* start_time.elapsed() is read once by the loop condition and once more   *)
(* by the subtraction, and the clock may move between the two reads.       *)
(***************************************************************************)
\* the units of one second
UNITS_PER_SECOND == 2

PeriodMinutes == {0, 1, 2}

\* how far past the lock duration the clock is followed
MaxLate == 2

\* Duration::from_secs(minutes * 60)
period_lock_duration(m) == m * 60 * UNITS_PER_SECOND

\* (remaining.as_secs() + 59) / 60
remaining_minutes(r) == ((r \div UNITS_PER_SECOND) + 59) \div 60

InitPeriod ==
    /\ pc = "start"
    /\ unlock_phrase = STR_UNLOCK
    /\ screen_context = <<>>
    /\ messages = <<>>
    /\ conversation = <<>>
    /\ input_buffer = <<>>
    /\ turn = 0
    /\ user_input = <<>>
    /\ response = <<>>
    /\ verdict = Pending
    /\ apiCalls = 0
    /\ result = Running
    /\ kbHeld = "none"
    /\ ptrHeld = "none"
    /\ kb_grab = "none"
    /\ ptr_grab = "none"
    /\ grabAttempts = 0
    /\ mapped = {}
    /\ everMapped = {}
    /\ drawn = FALSE
    /\ minutes = 0
    /\ clock = 0
    /\ pending = <<>>
    /\ last_key = 0
    /\ ServiceIdle
    /\ MonitorIdle
    /\ RendererIdle
    /\ WorkerIdle
    /\ period_pc = "while"
    /\ period_minutes \in PeriodMinutes
    /\ period_clock = 0
    /\ period_elapsed = 0
    /\ remaining = <<>>

\* time passes while the task is between two statements
PeriodTime ==
    /\ period_pc \in {"while", "subtract"}
    /\ period_clock < period_lock_duration(period_minutes) + MaxLate
    /\ period_clock' = period_clock + 1
    /\ UNCHANGED <<period_pc, period_minutes, period_elapsed, remaining>>
    /\ UNCHANGED <<session, renderer, worker, service, monitor>>

\* while start_time.elapsed() < lock_duration
PeriodWhile ==
    /\ period_pc = "while"
    /\ period_elapsed' = period_clock
    /\ IF period_clock < period_lock_duration(period_minutes)
       THEN period_pc' = "subtract"
       ELSE period_pc' = "done"
    /\ remaining' = <<>>
    /\ UNCHANGED <<period_minutes, period_clock>>
    /\ UNCHANGED <<session, renderer, worker, service, monitor>>

\* let remaining = lock_duration - start_time.elapsed(): Duration's Sub panics
\* when the right-hand side is the larger one
PeriodSubtract ==
    /\ period_pc = "subtract"
    /\ period_elapsed' = period_clock
    /\ IF period_clock <= period_lock_duration(period_minutes)
       THEN /\ remaining' = <<period_lock_duration(period_minutes) - period_clock>>
            /\ period_pc' = "sleep"
       ELSE /\ remaining' = <<>>
            /\ period_pc' = "panicked"
    /\ UNCHANGED <<period_minutes, period_clock>>
    /\ UNCHANGED <<session, renderer, worker, service, monitor>>

\* the remaining minutes are printed; time::sleep(Duration::from_secs(1))
PeriodSleep ==
    /\ period_pc = "sleep"
    /\ period_pc' = "while"
    /\ period_clock' = period_clock + UNITS_PER_SECOND
    /\ UNCHANGED <<period_minutes, period_elapsed, remaining>>
    /\ UNCHANGED <<session, renderer, worker, service, monitor>>

NextPeriod ==
    \/ PeriodTime
    \/ PeriodWhile
    \/ PeriodSubtract
    \/ PeriodSleep

SpecPeriod == InitPeriod /\ [][NextPeriod]_vars

(***************************************************************************)
(* The loop of main, in units of 10 s (SCREENSHOT_INTERVAL_SECS), and the  *)
(* lock-screen threads it spawns.  The records of the last five minutes    *)
(* decide nothing here and are left out.  A thread goes through            *)
(* "starting" (windows, grab), "chat" (the negotiation, waiting for the    *)
(* user without a time limit) and "timer" (the lock timer).                *)
(***************************************************************************)
API_CALL_INTERVAL == 6   \* API_CALL_INTERVAL_SECS, 60 s
NO_INTERNET_SLEEP == 6   \* Duration::from_secs(60)
LOCK_PAUSE == 12         \* Duration::from_secs(120)
FIRST_CALL_AGE == 12     \* chrono::Duration::minutes(2)

\* the threads followed at one time, and the age of last_api_call followed
MaxThreads == 2
MaxSince == 24

InitMain ==
    /\ pc = "start"
    /\ unlock_phrase = STR_UNLOCK
    /\ screen_context = <<>>
    /\ messages = <<>>
    /\ conversation = <<>>
    /\ input_buffer = <<>>
    /\ turn = 0
    /\ user_input = <<>>
    /\ response = <<>>
    /\ verdict = Pending
    /\ apiCalls = 0
    /\ result = Running
    /\ kbHeld = "none"
    /\ ptrHeld = "none"
    /\ kb_grab = "none"
    /\ ptr_grab = "none"
    /\ grabAttempts = 0
    /\ mapped = {}
    /\ everMapped = {}
    /\ drawn = FALSE
    /\ minutes = 0
    /\ clock = 0
    /\ pending = <<>>
    /\ last_key = 0
    /\ ServiceIdle
    /\ PeriodIdle
    /\ RendererIdle
    /\ WorkerIdle
    /\ main_pc = "screenshot"
    /\ since_api_call = FIRST_CALL_AGE
    /\ now_since = 0
    /\ lock_threads = <<>>

\* steps 1 to 3: take_screenshot()? and ocr_screenshot()?; an error ends main
\* and with it the process and its threads
MainCapture ==
    /\ main_pc = "screenshot"
    /\ \/ /\ main_pc' = "step4"
          /\ UNCHANGED lock_threads
       \/ /\ main_pc' = "failed"
          /\ lock_threads' = <<>>
    /\ UNCHANGED <<since_api_call, now_since>>
    /\ UNCHANGED <<session, renderer, worker, service, period>>

\* step 4 up to the spawn: the age of last_api_call, the internet check and
\* check_procrastination
MainCheck ==
    /\ main_pc = "step4"
    /\ now_since' = since_api_call
    /\ IF since_api_call >= API_CALL_INTERVAL
       THEN \/ /\ since_api_call + NO_INTERNET_SLEEP <= MaxSince   \* no connection
               /\ since_api_call' = since_api_call + NO_INTERNET_SLEEP
               /\ main_pc' = "screenshot"
               /\ UNCHANGED lock_threads
            \/ /\ main_pc' = "failed"                              \* the call failed
               /\ lock_threads' = <<>>
               /\ UNCHANGED since_api_call
            \/ /\ Len(lock_threads) < MaxThreads                   \* PROCRASTINATING
               /\ lock_threads' = Append(lock_threads, "starting")
               /\ main_pc' = "pause"
               /\ UNCHANGED since_api_call
            \/ /\ since_api_call' = 0                              \* NOT PROCRASTINATING
               /\ main_pc' = "wait"
               /\ UNCHANGED lock_threads
       ELSE /\ main_pc' = "wait"
            /\ UNCHANGED <<since_api_call, lock_threads>>
    /\ UNCHANGED <<session, renderer, worker, service, period>>

\* std::thread::sleep of 120 s, then last_api_call = now; the grab attempts of a
\* thread take seconds, so no thread is still at them when the pause is over
MainPause ==
    /\ main_pc = "pause"
    /\ \A k \in 1..Len(lock_threads) : lock_threads[k] # "starting"
    /\ main_pc' = "wait"
    /\ since_api_call' = LOCK_PAUSE
    /\ UNCHANGED <<now_since, lock_threads>>
    /\ UNCHANGED <<session, renderer, worker, service, period>>

\* time::sleep of SCREENSHOT_INTERVAL_SECS
MainWait ==
    /\ main_pc = "wait"
    /\ since_api_call < MaxSince
    /\ main_pc' = "screenshot"
    /\ since_api_call' = since_api_call + 1
    /\ UNCHANGED <<now_since, lock_threads>>
    /\ UNCHANGED <<session, renderer, worker, service, period>>

\* the sequence without its k-th element
Without(q, k) == SubSeq(q, 1, k - 1) \o SubSeq(q, k + 1, Len(q))

\* whether a thread other than the k-th holds the keyboard and the pointer
GrabTaken(k) ==
    \E j \in 1..Len(lock_threads) : j # k /\ lock_threads[j] \in {"chat", "timer"}

\* a lock-screen thread goes on: it gets the grab or gives up after its tries,
\* the negotiation ends in a timed lock or in a release, the timer runs out
LockThreadStep ==
    /\ main_pc # "failed"
    /\ \E k \in 1..Len(lock_threads) :
          \/ /\ lock_threads[k] = "starting"
             /\ IF GrabTaken(k)
                THEN lock_threads' = Without(lock_threads, k)
                ELSE lock_threads' = [lock_threads EXCEPT ![k] = "chat"]
          \/ /\ lock_threads[k] = "chat"
             /\ \/ lock_threads' = [lock_threads EXCEPT ![k] = "timer"]
                \/ lock_threads' = Without(lock_threads, k)
          \/ /\ lock_threads[k] = "timer"
             /\ lock_threads' = Without(lock_threads, k)
    /\ UNCHANGED <<main_pc, since_api_call, now_since>>
    /\ UNCHANGED <<session, renderer, worker, service, period>>

NextMain ==
    \/ MainCapture
    \/ MainCheck
    \/ MainPause
    \/ MainWait
    \/ LockThreadStep

SpecMain == InitMain /\ [][NextMain]_vars
(***************************************************************************)
(* Properties.                                                             *)
(***************************************************************************)
Last(q) == q[Len(q)]

NoToken(reply) == ~contains(reply, STR_UNLOCK) /\ ~contains(reply, STR_LOCK_COLON)

\* C1: a session makes at most MAX_MESSAGES (4) calls of the service, and when
\* the reply of the 4th turn holds neither UNLOCK nor LOCK: the negotiation ends
\* with TimedLock(1): no 5th line is asked for and no 5th call is made.
C1_TurnLimit ==
    /\ apiCalls <= MAX_MESSAGES
    /\ (pc \in {"input", "thinking"} => turn < MAX_MESSAGES)
    /\ (/\ apiCalls = MAX_MESSAGES
        /\ pc \in {"input", "verdict"}
        /\ NoToken(response)
        /\ user_input # AUTO_UNLOCK)
          => /\ pc = "verdict"
             /\ verdict = TimedLock(MIN_LOCK_MINUTES)

C1_Witness ==
    /\ pc = "verdict"
    /\ apiCalls = MAX_MESSAGES
    /\ turn = MAX_MESSAGES
    /\ NoToken(response)
    /\ verdict = TimedLock(MIN_LOCK_MINUTES)

EqualsIgnoreCase(a, b) == to_lowercase(a) = to_lowercase(b)

\* C2: whatever the configured phrase and the turn, a submitted line that equals
\* the phrase case-insensitively is never sent to the service: no call is in
\* flight for such a line (the session ended with Unlocked instead).
C2_PhraseNeverSent ==
    pc = "thinking" => ~EqualsIgnoreCase(user_input, unlock_phrase)

\* C3: a reply that contains both UNLOCK and LOCK: gives Unlocked.
C3_UnlockPrecedence ==
    (/\ verdict # Pending
     /\ contains(response, STR_UNLOCK)
     /\ contains(response, STR_LOCK_COLON))
        => verdict = Unlocked

\* a reply where LOCK: comes first and is not the tail of an UNLOCK
C3_Witness ==
    /\ verdict = Unlocked
    /\ contains(response, STR_UNLOCK)
    /\ contains(response, STR_LOCK_COLON)
    /\ find(response, STR_LOCK_COLON) < find(response, STR_UNLOCK)

\* an integer literal: an optional minus sign and one digit or more
IsIntLiteral(s) ==
    /\ s # <<>>
    /\ LET d == IF s[1] = 45 THEN Tail(s) ELSE s
       IN  d # <<>> /\ \A k \in 1..Len(d) : is_digit(d[k])

\* clamp(n, 1, 10) of the integer n an integer literal denotes
ClampOfLiteral(s) ==
    IF s[1] = 45 THEN MIN_LOCK_MINUTES
    ELSE LET n == StripZeros(s)
         IN  IF Len(n) > 2 THEN MAX_LOCK_MINUTES
             ELSE IF SmallValue(n) < MIN_LOCK_MINUTES THEN MIN_LOCK_MINUTES
             ELSE IF SmallValue(n) > MAX_LOCK_MINUTES THEN MAX_LOCK_MINUTES
             ELSE SmallValue(n)

AfterPrefix(s, p) == SubSeq(s, Len(p) + 1, Len(s))

\* C4: for every integer n, the reply LOCK:n gives TimedLock(clamp(n, 1, 10)).
C4_ClampEveryInteger ==
    (/\ verdict # Pending
     /\ IsPrefix(STR_LOCK_COLON, response)
     /\ IsIntLiteral(AfterPrefix(response, STR_LOCK_COLON)))
        => verdict = TimedLock(ClampOfLiteral(AfterPrefix(response, STR_LOCK_COLON)))

\* the text after the first LOCK: of a reply, without its leading whitespace
RECURSIVE trim_start(_)
trim_start(s) == IF s # <<>> /\ is_whitespace(s[1]) THEN trim_start(Tail(s)) ELSE s

RECURSIVE LeadingDigits(_)
LeadingDigits(s) ==
    IF s # <<>> /\ is_digit(s[1]) THEN <<s[1]>> \o LeadingDigits(Tail(s)) ELSE <<>>

AfterLock(reply) ==
    trim_start(SubSeq(reply, find(reply, STR_LOCK_COLON) + Len(STR_LOCK_COLON), Len(reply)))

\* the reply holds a token LOCK:<integer>: the number is followed by the end of
\* the reply or by whitespace
HasLockNumber(reply) ==
    /\ contains(reply, STR_LOCK_COLON)
    /\ LET rest == AfterLock(reply)
           n == LeadingDigits(rest)
       IN  /\ n # <<>>
           /\ (Len(rest) = Len(n) \/ is_whitespace(rest[Len(n) + 1]))

\* C5: a reply without UNLOCK that holds a token LOCK:<integer n> anywhere, with
\* whitespace around the integer and any text before or after the token, gives
\* TimedLock(clamp(n, 1, 10)).
C5_LockTokenAnywhere ==
    (/\ verdict # Pending
     /\ ~contains(response, STR_UNLOCK)
     /\ HasLockNumber(response))
        => verdict = TimedLock(ClampOfLiteral(LeadingDigits(AfterLock(response))))

\* the segment after the first LOCK: of the reply is not a number: no optional
\* sign followed by digits only
Unparsable(reply) ==
    /\ contains(reply, STR_LOCK_COLON)
    /\ ~contains(reply, STR_UNLOCK)
    /\ LET seg == trim(split(reply, STR_LOCK_COLON)[2])
       IN  ~(IsIntLiteral(seg) \/ (seg # <<>> /\ seg[1] = 43 /\ IsIntLiteral(Tail(seg))))

\* C6: when the reply of a turn holds LOCK: without UNLOCK and the text after
\* LOCK: is not a number, the negotiation ends on that turn with TimedLock(1):
\* it asks for no further line and returns no error.
C6_UnparsableIsTerminal ==
    (/\ pc \in {"input", "verdict"}
     /\ apiCalls > 0
     /\ user_input # AUTO_UNLOCK
     /\ Unparsable(response))
        => /\ pc = "verdict"
           /\ verdict = TimedLock(MIN_LOCK_MINUTES)
           /\ Last(messages) = Decision(locked_for(MIN_LOCK_MINUTES))
           /\ result = Running

\* on the second turn of four
C6_Witness ==
    /\ pc = "verdict"
    /\ turn = 1
    /\ apiCalls = 2
    /\ Unparsable(response)
    /\ verdict = TimedLock(MIN_LOCK_MINUTES)

\* C7: a failed call of the service ends the entry point with an error: the
\* call is not made again, no turn follows, no verdict is returned and the lock
\* timer is never started; a verdict is returned only when every call made was
\* answered.
C7_RemoteFailureIsFatal ==
    /\ result.err = "RemoteError"
          => /\ pc = "done"
             /\ result.tag = "Err"
             /\ apiCalls = turn + 1
             /\ verdict \in {Pending, NoDecision}
             /\ minutes = 0
             /\ "timer" \notin everMapped
    /\ pc = "verdict"
          => Len(conversation) = Len(initialize_conversation(screen_context)) + 2 * apiCalls

\* the call of the third turn failed
C7_Witness ==
    /\ result = Err("RemoteError")
    /\ pc = "done"
    /\ apiCalls = 3
    /\ turn = 2

BothGrabbed == kb_grab = "SUCCESS" /\ ptr_grab = "SUCCESS"

\* C8: grab_keyboard_and_mouse makes at most GRAB_TRIES (6) attempts; it goes on
\* only after an attempt that did not grab both devices, returns Ok only from an
\* attempt that grabbed both, and returns the error from the sixth failed attempt.
C8_GrabBounded ==
    /\ grabAttempts <= GRAB_TRIES
    /\ (pc \in {"grab", "timer_grab"}
          => grabAttempts < GRAB_TRIES /\ (grabAttempts > 0 => ~BothGrabbed))
    /\ (pc \in {"input", "thinking", "verdict", "timer_run"} => BothGrabbed)
    /\ (result.err = "GrabError" => grabAttempts = GRAB_TRIES /\ ~BothGrabbed)

\* the sixth attempt grabbed the keyboard only
C8_Witness ==
    /\ result = Err("GrabError")
    /\ grabAttempts = GRAB_TRIES
    /\ kb_grab = "SUCCESS"
    /\ ptr_grab # "SUCCESS"

SetupErrors == {"CreateError", "GrabError"}

\* C9 as stated: when resource creation or input seizure fails, no window was
\* ever mapped, no transcript was drawn and no call of the service was made.
C9_NothingShownOnSetupFailure ==
    result.err \in SetupErrors => everMapped = {} /\ ~drawn /\ apiCalls = 0

\* C9 amended: a window is mapped only with both grabs held by its connection;
\* when the chat session's creation or seizure fails no window was ever mapped,
\* no transcript was drawn and no call was made; when the lock timer's creation
\* or seizure fails the timer window was never mapped.
C9_MappedOnlyWhenSeized ==
    /\ ("chat" \in mapped => kbHeld = "chat" /\ ptrHeld = "chat")
    /\ ("timer" \in mapped => kbHeld = "timer" /\ ptrHeld = "timer")
    /\ (result.err \in SetupErrors /\ verdict = Pending
          => everMapped = {} /\ ~drawn /\ apiCalls = 0)
    /\ (result.err \in SetupErrors /\ verdict # Pending
          => verdict.tag = "TimedLock" /\ "timer" \notin everMapped)

\* the chat session's sixth grab attempt failed
C9_Witness ==
    /\ result = Err("GrabError")
    /\ verdict = Pending
    /\ everMapped = {}
    /\ mapped = {}

\* C10: from the chat session's seizure of the input until the countdown has
\* elapsed, the keyboard grab and the pointer grab are held in every state.
C10_NoGap ==
    pc \in {"input", "thinking", "verdict", "timer_start", "timer_grab", "timer_run"}
        => kbHeld # "none" /\ ptrHeld # "none"


C12_TimedLockAfterTimer ==
    /\ result.tag = "TimedLock" =>
         /\ pc = "done"
         /\ verdict = TimedLock(result.minutes)
         /\ minutes = result.minutes
         /\ "timer" \in everMapped
         /\ clock >= result.minutes * TICKS_PER_MINUTE
    /\ result.tag = "Unlocked" =>
         /\ pc = "done"
         /\ verdict = Unlocked
         /\ minutes = 0
         /\ "timer" \notin everMapped
    /\ pc = "done" /\ minutes > 0 /\ clock < minutes * TICKS_PER_MINUTE =>
         result.tag = "Err"

\* the entry point has returned TimedLock(3) after a timer of three minutes
C12_Witness ==
    /\ result = Ok(TimedLock(3))
    /\ clock >= 3 * TICKS_PER_MINUTE

\* the negotiation is in progress: the LockWindow exists
InSession == pc \in {"grab", "input", "thinking", "verdict"}

\* the transcript without the transient "Claude is thinking..." entry that
\* process_message_with_claude shows while the call is in flight
Settled ==
    IF pc = "thinking" /\ messages # <<>> /\ Last(messages) = System(THINKING)
    THEN SubSeq(messages, 1, Len(messages) - 1)
    ELSE messages

(***************************************************************************)
(* C13, as the claim has it: the transcript is append-only within a        *)
(* session; across every step the number of entries never decreases and    *)
(* every existing entry stays where and what it was.                       *)
(***************************************************************************)
C13_AppendOnly ==
    [][InSession /\ InSession' =>
        /\ Len(messages') >= Len(messages)
        /\ IsPrefix(messages, messages')]_vars

(***************************************************************************)
(* C13, amended: the transcript is append-only within a session apart      *)
(* from the transient thinking entry.  Across every step the number of     *)
(* entries never decreases, and every entry other than a trailing          *)
(* thinking entry of a call in flight stays where and what it was.         *)
(***************************************************************************)
C13_AppendOnlyButThinking ==
    [][InSession /\ InSession' =>
        /\ Len(messages') >= Len(messages)
        /\ IsPrefix(Settled, messages')]_vars

\* a reply has taken the place of the thinking entry
C13_Witness ==
    /\ pc = "input"
    /\ turn = 1
    /\ Len(messages) = 3
    /\ messages[3].kind = "Assistant"

\* the transcript entries that have a line in the frame
Displayed == {frame[k].entry : k \in 1..Len(frame)} \ {0}

\* the number of transcript lines that fit the height of the screen
LinesThatFit == IF screen_height < 120 THEN 0 ELSE (screen_height - 120) \div 20

(***************************************************************************)
(* C14: for every transcript length L and screen height, a redraw displays *)
(* exactly min(L, max_visible) entries, max_visible being the number of    *)
(* lines that fit the visible height, and the displayed entries are the    *)
(* most recent ones, in insertion order.                                   *)
(***************************************************************************)
C14_MostRecentWindow ==
    frame # <<>> =>
        LET L == Len(messages)
            shown == IF L < LinesThatFit THEN L ELSE LinesThatFit
        IN  /\ Displayed = (L - shown + 1)..L
            /\ \A j, k \in 1..Len(frame) : j < k /\ frame[k].entry # 0 =>
                   frame[j].entry # 0 /\ frame[j].entry <= frame[k].entry

(***************************************************************************)
(* C15: the conversation history grows by exactly one user message per     *)
(* submitted turn and one assistant message per reply and is never         *)
(* truncated.  With k calls of the service made, the history is the        *)
(* initial history (1 message with an empty screen context, 3 with a       *)
(* non-empty one) followed by user and assistant messages in turn, 2k of   *)
(* them once the k-th reply is in and 2k - 1 while it is awaited; and      *)
(* every step of the session keeps the messages it found as a prefix.      *)
(***************************************************************************)
C15_HistoryGrows ==
    /\ [](InSession =>
            LET initial == initialize_conversation(screen_context)
                n == Len(initial)
            IN  /\ n = IF screen_context = <<>> THEN 1 ELSE 3
                /\ IsPrefix(initial, conversation)
                /\ Len(conversation) =
                       n + 2 * apiCalls - (IF pc = "thinking" THEN 1 ELSE 0)
                /\ \A k \in 1..(Len(conversation) - n) :
                       conversation[n + k].role =
                           IF k % 2 = 1 THEN "user" ELSE "assistant")
    /\ [][InSession /\ InSession' => IsPrefix(conversation, conversation')]_vars

\* four turns were completed after a non-empty screen context: 3 + 2 * 4 messages
C15_Witness ==
    /\ pc = "verdict"
    /\ screen_context # <<>>
    /\ apiCalls = 4
    /\ Len(conversation) = 11

(***************************************************************************)
(* C16: whenever the negotiation returns a verdict, by whatever path, the  *)
(* last transcript entry is a Decision entry describing that verdict: for  *)
(* TimedLock(m) its text is "SCREEN LOCKED FOR m MINUTES" with the same m, *)
(* for Unlocked one of the two unlocking texts.                            *)
(***************************************************************************)
C16_DecisionEntryLast ==
    pc = "verdict" =>
        /\ messages # <<>>
        /\ Last(messages).kind = "Decision"
        /\ verdict.tag = "TimedLock" =>
               Last(messages).text = locked_for(verdict.minutes)
        /\ verdict.tag = "Unlocked" =>
               Last(messages).text \in {UNLOCKING, UNLOCKING_AUTO}

(***************************************************************************)
(* C17: the configured unlock phrase is the only input that releases the   *)
(* session without a verdict of the service.  The negotiation returns      *)
(* Unlocked only if the service replied with UNLOCK or the input line      *)
(* equals the configured phrase case-insensitively.                        *)
(***************************************************************************)
C17_OnlyPhraseOrService ==
    pc = "verdict" /\ verdict = Unlocked =>
        \/ user_input # AUTO_UNLOCK /\ contains(response, STR_UNLOCK)
        \/ EqualsIgnoreCase(input_buffer, unlock_phrase)

(***************************************************************************)
(* C18: on turns 1 to 3 a reply that contains neither UNLOCK nor LOCK:     *)
(* produces no verdict: the machine is back waiting for input with an      *)
(* empty input line, the session has not ended, and the next submitted     *)
(* line starts the next turn (the turn counter has advanced by one and is  *)
(* below the limit while input is awaited).                                *)
(***************************************************************************)
C18_NoTokenContinues ==
    /\ [](pc = "input" => turn < MAX_MESSAGES /\ apiCalls = turn /\ result = Running)
    /\ [][pc = "thinking" /\ InSession' /\ NoToken(response')
              /\ turn + 1 < MAX_MESSAGES =>
            /\ pc' = "input"
            /\ input_buffer' = <<>>
            /\ verdict' = NoDecision
            /\ result' = Running
            /\ turn' = turn + 1]_vars

\* three replies without a token were taken and the fourth line is awaited
C18_Witness ==
    /\ pc = "input"
    /\ turn = 3
    /\ NoToken(response)
    /\ input_buffer = <<>>
    /\ verdict = NoDecision

\* a reply of the service is the last thing that happened in the negotiation
AfterReply ==
    /\ pc \in {"input", "verdict"}
    /\ apiCalls > 0
    /\ user_input # AUTO_UNLOCK

(***************************************************************************)
(* C19, as the claim has it: for every reply that contains neither token,  *)
(* the verdict derived from that reply is ExtendLock(1).                   *)
(***************************************************************************)
C19_NoTokenIsMinimumLock ==
    AfterReply /\ NoToken(response) => verdict = TimedLock(MIN_LOCK_MINUTES)

(***************************************************************************)
(* C19, amended: a reply that contains neither token yields no verdict on  *)
(* turns 1 to 3, where the negotiation goes on; it yields ExtendLock(1)    *)
(* only as the reply of the last turn, the 4th.                            *)
(***************************************************************************)
C19_NoTokenByTurn ==
    AfterReply /\ NoToken(response) =>
        IF apiCalls < MAX_MESSAGES
        THEN pc = "input" /\ verdict = NoDecision
        ELSE pc = "verdict" /\ verdict = TimedLock(MIN_LOCK_MINUTES)

\* the second reply held no token and the user is typing the third line
C19_Witness ==
    /\ pc = "input"
    /\ apiCalls = 2
    /\ NoToken(response)
    /\ input_buffer # <<>>

\* the input channel was closed with no line in it and none received
ClosedBeforeLine ==
    /\ ~input_open
    /\ input_channel = <<>>
    /\ worker_input = <<>>

(***************************************************************************)
(* C20, as the claim has it: if the input channel is closed by the other   *)
(* side before a line is received, the worker does not block forever: it   *)
(* terminates, and what it returns is Lock(1), not an error and not        *)
(* Unlock.                                                                 *)
(***************************************************************************)
C20_ClosedInputIsMinimumLock ==
    /\ [](wpc = "done" /\ ClosedBeforeLine => decision = Ok(Lock(1)))
    /\ (wpc # "done" /\ ClosedBeforeLine) ~> (wpc = "done")

(***************************************************************************)
(* C20, amended: if the input channel is closed by the other side before a *)
(* line is received, the worker does not block forever: it terminates, and *)
(* it returns Lock(1) if its intro message was sent; if the receiver of    *)
(* the message channel was gone by then too, it returns the error of that  *)
(* send.  It never returns Unlock without having received a line.          *)
(***************************************************************************)
C20_ClosedInputEndsWorker ==
    /\ [](wpc = "done" /\ ClosedBeforeLine =>
            \/ decision = Ok(Lock(1)) /\ msg_channel = <<System(TEST_INTRO)>>
            \/ decision = Err("SendError") /\ msg_channel = <<>> /\ ~msg_open)
    /\ [](decision = Ok(Unlock) => worker_input # <<>>)
    /\ (wpc # "done" /\ ClosedBeforeLine) ~> (wpc = "done")

\* the worker has returned Lock(1) after its receive found the channel closed
C20_Witness ==
    /\ wpc = "done"
    /\ ClosedBeforeLine
    /\ decision = Ok(Lock(1))

(***************************************************************************)
(* C21: after the entry point has returned with a failure, whatever the    *)
(* failure (connection, window creation, grab, drawing or event error,     *)
(* remote error) and wherever in the session or the lock timer it          *)
(* happened, no lock window is mapped and neither the keyboard nor the     *)
(* pointer grab is held.                                                   *)
(***************************************************************************)
C21_NothingLeftAfterFailure ==
    result.tag = "Err" =>
        /\ pc = "done"
        /\ mapped = {}
        /\ kbHeld = "none"
        /\ ptrHeld = "none"

\* the entry point has failed after its chat window had been mapped
C21_Witness ==
    /\ result.tag = "Err"
    /\ result.err \in {"XError", "RemoteError"}
    /\ "chat" \in everMapped

(***************************************************************************)
(* C22: a malformed response of the service is surfaced as an error and    *)
(* never turned into a reply text.  call_claude_api returns Ok(text) only  *)
(* when the response carries a text content block, and a response without  *)
(* one (an empty content list) yields an error.                            *)
(***************************************************************************)
C22_MalformedIsError ==
    api_result # <<>> =>
        /\ api_result[1].ok =>
               api_response.kind = "json" /\ api_response.content # <<>>
        /\ api_response.kind # "json" \/ api_response.content = <<>> =>
               ~api_result[1].ok

\* the codes of the space, the digits and the Latin letters
TextCodes == {32} \cup 48..57 \cup 65..90 \cup 97..122

(***************************************************************************)
(* C23: for every key code, Enter, Escape and Backspace never append a     *)
(* character; a code appends its character to the input line exactly when  *)
(* it is the space code (0x20), a digit (0x30-0x39) or a Latin letter      *)
(* (0x41-0x5a, 0x61-0x7a); every other code leaves the line unchanged.     *)
(***************************************************************************)
C23_KeyMapping ==
    [][/\ last_key' \in {ENTER, ESCAPE, BACKSPACE} => input_buffer' = input_buffer
       /\ IF last_key' \in TextCodes
          THEN input_buffer' = Append(input_buffer, last_key')
          ELSE input_buffer' = input_buffer]_vars

\* a zero and a lower-case z were appended
C23_Witness ==
    /\ last_key = 122
    /\ input_buffer = <<48, 122>>

C25_OnlySubmitLeavesInput ==
    [][pc = "input" /\ last_key' # ENTER /\ result'.tag # "Err" =>
        /\ pc' = "input"
        /\ apiCalls' = apiCalls
        /\ turn' = turn
        /\ verdict' = verdict]_vars

ThinkingAt(q) == {k \in 1..Len(q) : q[k] = System(THINKING)}

(***************************************************************************)
(* C27: the thinking indicator is transient.  It is in the transcript only *)
(* while a remote call is outstanding, where it is the last entry and the  *)
(* only one of its kind; the entry taken out when the reply arrives is     *)
(* exactly that indicator, every other entry staying in place; and in      *)
(* every AwaitingInput state and at every returned verdict the transcript  *)
(* holds no thinking entry.                                                *)
(***************************************************************************)
C27_ThinkingIsTransient ==
    /\ [](ThinkingAt(messages) # {} => pc = "thinking")
    /\ [](pc = "thinking" => ThinkingAt(messages) = {Len(messages)})
    /\ [][pc = "thinking" /\ InSession' =>
            /\ IsPrefix(SubSeq(messages, 1, Len(messages) - 1), messages')
            /\ Len(messages') >= Len(messages)
            /\ messages'[Len(messages)].kind = "Assistant"]_vars

\* the indicator is up for the third call
C27_Witness ==
    /\ pc = "thinking"
    /\ apiCalls = 3
    /\ Last(messages) = System(THINKING)

(***************************************************************************)
(* C28: under the assumption that time advances, the lock timer            *)
(* terminates: a running timer eventually leaves its loop; when it returns *)
(* Ok the elapsed time has reached the duration, and on that exit its      *)
(* window, which was mapped, is unmapped and destroyed.                    *)
(***************************************************************************)
C28_TimerTerminates ==
    /\ (pc = "timer_run") ~> (pc = "done")
    /\ [](result.tag = "TimedLock" =>
            /\ pc = "done"
            /\ clock >= minutes * TICKS_PER_MINUTE
            /\ "timer" \in everMapped
            /\ mapped = {})
    /\ [][pc = "timer_run" /\ pc' = "done" /\ result'.tag # "Err" =>
            /\ "timer" \in mapped
            /\ result' = Ok(TimedLock(minutes))]_vars

\* a timer of two minutes has run out and returned
C28_Witness ==
    /\ pc = "done"
    /\ result = Ok(TimedLock(2))
    /\ clock >= 2 * TICKS_PER_MINUTE
    /\ mapped = {}

(***************************************************************************)
(* C29: an empty line is never submitted.  Enter on an empty input line    *)
(* changes nothing (no transcript entry, no history entry, no remote call, *)
(* no turn consumed, the wait for input goes on), so every user message    *)
(* sent to the service is non-empty.                                       *)
(***************************************************************************)
C29_EmptyLineNotSubmitted ==
    /\ [][pc = "input" /\ input_buffer = <<>> /\ last_key' = ENTER
              /\ result'.tag # "Err" =>
            UNCHANGED <<pc, messages, conversation, apiCalls, turn, input_buffer,
                        verdict>>]_vars
    /\ [](\A k \in 1..Len(conversation) :
            conversation[k].role = "user" => conversation[k].content # <<>>)
    /\ [](pc = "thinking" =>
            user_input # <<>> /\ Last(conversation) = Message("user", user_input))

\* Enter was pressed on the empty line of the first turn and nothing came of it
C29_Witness ==
    /\ pc = "input"
    /\ last_key = ENTER
    /\ input_buffer = <<>>
    /\ apiCalls = 0
    /\ messages = <<System(INTRO)>>

(***************************************************************************)
(* C30: message roles in the conversation history strictly alternate,      *)
(* starting with the assistant-role instruction message: with or without a *)
(* screen context no two consecutive history messages have the same role,  *)
(* and every request sent to the service ends with a user message.         *)
(***************************************************************************)
C30_RolesAlternate ==
    conversation # <<>> =>
        /\ conversation[1] = Message("assistant", JUDGE_PROMPT)
        /\ \A k \in 1..(Len(conversation) - 1) :
              conversation[k].role # conversation[k + 1].role
        /\ \A k \in 1..Len(conversation) :
              conversation[k].role \in {"assistant", "user"}
        /\ (pc = "thinking" => Last(conversation).role = "user")

\* the second request of a session that started with a screen context
C30_Witness ==
    /\ pc = "thinking"
    /\ screen_context # <<>>
    /\ Len(conversation) = 6
    /\ apiCalls = 2

(***************************************************************************)
(* C31: the input line only ever holds characters of the accepted set      *)
(* (space, digits, Latin letters), so no line the user submits equals the  *)
(* sentinel "__AUTO_UNLOCK__": the session becomes Unlocked on the         *)
(* sentinel only when get_user_input took one of its unlock shortcuts.     *)
(***************************************************************************)
AcceptedCodes == {32} \cup 48..57 \cup 65..90 \cup 97..122

C31_SentinelNotTyped ==
    /\ [](\A k \in 1..Len(input_buffer) : input_buffer[k] \in AcceptedCodes)
    /\ [](\A k \in 1..Len(messages) : messages[k] # User(AUTO_UNLOCK))
    /\ [](pc = "thinking" => user_input # AUTO_UNLOCK)
    /\ [][verdict = Pending /\ verdict' = Unlocked =>
            \/ last_key' = ENTER /\ to_lowercase(trim(input_buffer)) = STR_UNLOCK_PLS
            \/ /\ last_key' \notin {ENTER, ESCAPE, BACKSPACE}
               /\ input_buffer' # input_buffer
               /\ check_unlock_phrase(input_buffer', unlock_phrase)]_vars

\* the keys of the sentinel were pressed and the line went to the service
\* without its underscores
C31_Witness ==
    /\ pc = "thinking"
    /\ user_input = <<65, 85, 84, 79, 85, 78, 76, 79, 67, 75>>
    /\ Last(messages) = System(THINKING)
    /\ verdict = Pending

(***************************************************************************)
(* C32: enforce_lock_period never subtracts a larger elapsed time from the *)
(* lock duration: however far the clock moves between the read of the loop *)
(* condition and the read of the subtraction, the value subtracted is at   *)
(* most lock_duration and the remaining time is never negative.            *)
(***************************************************************************)
C32_RemainingNeverNegative ==
    /\ period_pc # "panicked"
    /\ period_pc = "sleep" =>
          /\ period_elapsed <= period_lock_duration(period_minutes)
          /\ remaining # <<>>
          /\ remaining[1] >= 0

(***************************************************************************)
(* C33: in one redraw every drawn text line (the first line of each        *)
(* transcript entry and each word-wrapped continuation line of an          *)
(* Assistant entry) has a vertical position different from every other     *)
(* drawn line, and all of them lie above the input line.                   *)
(***************************************************************************)
TranscriptLines == {k \in 1..Len(frame) : frame[k].entry # 0}

C33_LinesApart ==
    drawn =>
        /\ \A a \in TranscriptLines : \A b \in TranscriptLines :
              a # b => frame[a].y # frame[b].y
        /\ \A a \in TranscriptLines : frame[a].y < Last(frame).y

\* the same for the transcripts without a reply of three lines, on the screens
\* whose height leaves room for a line
C33_LinesApartShortReplies ==
    /\ drawn
    /\ screen_height \in 140..32767
    /\ \A k \in 1..Len(messages) : messages[k] # Assistant(LongerReply)
    => C33_LinesApart

(***************************************************************************)
(* C34: the outer monitoring loop never has two lock sessions active at    *)
(* once: a new lock-session thread is spawned only when no lock session    *)
(* spawned before is still running.                                        *)
(***************************************************************************)
C34_OneLockSession == Len(lock_threads) <= 1

(***************************************************************************)
(* C35: the channel-based worker (screen_chat_unlock) sends its transcript *)
(* messages in the order System, User, Assistant, Decision, and returns    *)
(* Unlock only after the Decision message was accepted by the channel; if  *)
(* a send fails because the receiver is gone, it returns an error and not  *)
(* a verdict.                                                              *)
(***************************************************************************)
WorkerOrder == <<"System", "User", "Assistant", "Decision">>

C35_WorkerMessageOrder ==
    /\ [](/\ Len(msg_channel) <= Len(WorkerOrder)
          /\ \A k \in 1..Len(msg_channel) : msg_channel[k].kind = WorkerOrder[k])
    /\ [](decision = Ok(Unlock) =>
            /\ Len(msg_channel) = 4
            /\ msg_channel[1] = System(TEST_INTRO)
            /\ msg_channel[2] = User(trim(worker_input[1]))
            /\ msg_channel[3] = Assistant(TEST_REPLY)
            /\ msg_channel[4] = Decision(UNLOCKING))
    /\ [][(wpc \in {"intro", "echo", "reply", "decision"}) /\ wpc' # wpc /\ ~msg_open =>
            (wpc' = "done" /\ decision' = Err("SendError")
                /\ msg_channel' = msg_channel)]_vars
    /\ [][(wpc \in {"intro", "echo", "reply", "decision"}) /\ wpc' # wpc /\ msg_open =>
            (Len(msg_channel') = Len(msg_channel) + 1
                /\ SubSeq(msg_channel', 1, Len(msg_channel)) = msg_channel
                /\ decision'.tag # "Err")]_vars

\* the receiver went away after the reply: the send of the Decision failed and
\* the worker returned the error
C35_Witness ==
    /\ wpc = "done"
    /\ decision = Err("SendError")
    /\ Len(msg_channel) = 3
    /\ msg_channel[3] = Assistant(TEST_REPLY)
====
